---- MODULE Spec2Model ----
(***************************************************************************)
(* A model of the honeypot analysis engine:                                *)
(*   - HoneypotAIAnalyzer (backend/ai-engine/analyer.py): one analysis     *)
(*     pass per call of analyze_logs, with the reputation scores and the   *)
(*     attack-pattern history kept between passes;                         *)
(*   - AttackClassifier (backend/ai-engine/classifier.py): the rule stage, *)
(*     the statistical stage and their combination in classify_attack.     *)
(*                                                                         *)
(* Encodings.                                                              *)
(*   A Python dict is a record together with the set `keys` of the keys it *)
(*   holds; a field whose key is not in `keys` is a placeholder.           *)
(*   A batch is a sequence of runs [ev, n]: n consecutive copies of the    *)
(*   event ev.  A confidence is a whole number of 1/Unit.                  *)
(*   A source address that is not a Python str is written with the prefix  *)
(*   "int:" and listed in NonStrSources.                                   *)
(***************************************************************************)
EXTENDS Integers, Sequences, FiniteSets, TLC

VARIABLES
  known_malicious_ips,\* HoneypotAIAnalyzer.known_malicious_ips
  reputation_scores,  \* HoneypotAIAnalyzer.reputation_scores: source -> score
  attack_patterns,    \* HoneypotAIAnalyzer.attack_patterns: attack type -> entries
  lists,              \* the list objects of attack_patterns that threads hold
  clock,              \* datetime.now(), in hours since the analyzer was made
  call,               \* the last call of analyze_logs: its batch, fault and outcome
  report,             \* the dict the last call of analyze_logs returned
  is_trained,         \* AttackClassifier.is_trained
  attack_signatures,  \* AttackClassifier.attack_signatures, in the order of the dict
  classified,         \* the last call of classify_attack: its input and results
  passes,             \* per thread, the position and the locals of its pass
  probe               \* the last call of a stage on its own: its input and result

vars == <<known_malicious_ips, reputation_scores, attack_patterns, lists, clock, call,
          report, is_trained, attack_signatures, classified, passes, probe>>

analyzerVars == <<known_malicious_ips, reputation_scores, attack_patterns, lists, clock,
                  call, report>>

classifierVars == <<is_trained, attack_signatures, classified>>

\* the threads that call analyze_logs on the one analyzer
Threads == {1, 2}

\* a thread that is not in analyze_logs
Idle ==
  [pc |-> "idle", logs |-> <<>>, i |-> 0, current_score |-> 0, new_score |-> 0,
   updates |-> [k \in {} |-> 0], written |-> <<>>, overlapped |-> FALSE,
   a |-> 0, ref |-> <<>>, kept |-> <<>>, table |-> <<>>, attacks |-> <<>>]

NoProbe == [fn |-> "none"]

(***************************************************************************)
(* Bounds of the model.                                                    *)
(***************************************************************************)
\* the largest number of copies of one event in a generated batch
MaxRun == 26

\* the attack-pattern history is explored up to this many stored entries
MaxPatterns == 3

\* the clock is explored up to this many hours, in steps of TickHours
MaxHours == 36

TickHours == 12

(***************************************************************************)
(* Numbers of the program.                                                 *)
(***************************************************************************)
\* confidences are counted in 1/300: 0.05 = 15, 1/6 = 50, 1/4 = 75, 1/150 = 2;
\* those of the classifier, which are sums of floats, carry besides what the
\* roundings of the sums made of them (see Nearest)
Unit == 300

NeutralStart == 50

PenaltyPerEvent == 2

PenaltyCap == 40

MaliciousPenalty == 20

TopN == 10

\* the hours an entry of the attack-pattern history is kept
KeepHours == 24

Max(a, b) == IF a >= b THEN a ELSE b

Min(a, b) == IF a <= b THEN a ELSE b

(***************************************************************************)
(* Sequence helpers.                                                       *)
(***************************************************************************)
RECURSIVE SumSeq(_)
SumSeq(s) == IF s = <<>> THEN 0 ELSE Head(s) + SumSeq(Tail(s))

SeqRange(s) == {s[i] : i \in 1..Len(s)}

\* the first k elements (Python s[:k], pandas head(k))
Take(s, k) == SubSeq(s, 1, Min(k, Len(s)))

RECURSIVE Dedup(_)
\* the distinct elements of s in the order of their first appearance
Dedup(s) ==
  IF s = <<>> THEN <<>>
  ELSE LET d == Dedup(SubSeq(s, 1, Len(s) - 1))
           x == s[Len(s)]
       IN IF x \in SeqRange(d) THEN d ELSE Append(d, x)

(***************************************************************************)
(* The analyzer's threat intelligence.                                     *)
(***************************************************************************)
\* self.known_malicious_ips after __init__: set() from line 30, and the demo
\* addresses once the three initialize() calls before lines 47-49 have
\* returned.  AnomalyDetector.initialize and AdaptationEngine.initialize print
\* a character outside ASCII: on a standard output that cannot encode it the
\* print raises, the except of lines 51-52 takes over and the set stays empty.
_initialize_models(initialized) ==
  IF initialized THEN {"192.168.1.100", "10.0.0.50", "172.16.0.10"} ELSE {}

\* the values self.known_malicious_ips can have; analyze_logs reads it as `known`
IntelStates == {_initialize_models(initialized) : initialized \in BOOLEAN}

\* source addresses that are not strings (the JSON number 7)
NonStrSources == {"int:7"}

IsStr(ip) == ip \notin NonStrSources

(***************************************************************************)
(* The signatures of the attack classifier.                                *)
(***************************************************************************)
Signature(attack_type, patterns) == [attack_type |-> attack_type, patterns |-> patterns]

\* self.attack_signatures after AttackClassifier()
BuiltinSignatures ==
  <<Signature("brute_force",
              <<"Failed password for.*from.*port", "authentication failure.*rhost=",
                "Invalid user.*from.*", "Failed login attempt">>),
    Signature("port_scan",
              <<"Connection attempt.*refused", "SYN flood detected", "Port scan detected",
                "Multiple connection attempts">>),
    Signature("web_attack",
              <<"GET.*\\.\\./\\.\\.", "SELECT.*FROM.*WHERE", "<script.*>.*</script>",
                "union.*select", "eval\\(", "cmd=.*&">>),
    Signature("ddos",
              <<"SYN flood", "UDP flood", "Connection flood", "Rate limit exceeded">>),
    Signature("malware",
              <<"Known malware signature", "Suspicious file upload", "Backdoor detected",
                "Trojan activity">>)>>

(***************************************************************************)
(* Events and batches.                                                     *)
(***************************************************************************)
Event(keys, ip, port, ts, tsok) ==
  [keys |-> keys, src_ip |-> ip, dst_port |-> port, timestamp |-> ts, ts_ok |-> tsok]

Run(ev, n) == [ev |-> ev, n |-> n]

HasColumn(logs, c) == \E i \in 1..Len(logs) : c \in logs[i].ev.keys

\* len(df)
TotalEvents(logs) == SumSeq([i \in 1..Len(logs) |-> logs[i].n])

\* the rows of the batch that hold column c
RowsWith(logs, c) == SelectSeq(logs, LAMBDA r : c \in r.ev.keys)

\* df[c] without its missing values: per run, the value and the number of rows
Column(logs, c) ==
  LET rows == RowsWith(logs, c)
  IN [i \in 1..Len(rows) |->
        [v |-> IF c = "src_ip" THEN rows[i].ev.src_ip ELSE rows[i].ev.dst_port,
         n |-> rows[i].n]]

\* the number of rows of the column that hold v
CountOf(col, v) ==
  SumSeq([i \in 1..Len(col) |-> IF col[i].v = v THEN col[i].n ELSE 0])

RECURSIVE SortDesc(_, _)
\* the values vs (in first-seen order) by descending count cnt[v], ties in the
\* order of vs
SortDesc(vs, cnt) ==
  IF vs = <<>> THEN <<>>
  ELSE LET best == CHOOSE i \in 1..Len(vs) :
                     /\ \A j \in 1..Len(vs) : cnt[vs[j]] <= cnt[vs[i]]
                     /\ \A j \in 1..(i - 1) : cnt[vs[j]] < cnt[vs[i]]
           rest == [j \in 1..(Len(vs) - 1) |-> IF j < best THEN vs[j] ELSE vs[j + 1]]
       IN <<vs[best]>> \o SortDesc(rest, cnt)

\* a variant of ValueCounts that keeps every value
ValueCountsUncut(col) ==
  LET seen == Dedup([i \in 1..Len(col) |-> col[i].v])
      cnt  == [v \in SeqRange(seen) |-> CountOf(col, v)]
      top  == SortDesc(seen, cnt)
  IN [i \in 1..Len(top) |-> <<top[i], cnt[top[i]]>>]

\* col.value_counts().head(10).to_dict(): an ordered table of <<value, count>>
ValueCounts(col) ==
  LET seen == Dedup([i \in 1..Len(col) |-> col[i].v])
      cnt  == [v \in SeqRange(seen) |-> CountOf(col, v)]
      top  == Take(SortDesc(seen, cnt), TopN)
  IN [i \in 1..Len(top) |-> <<top[i], cnt[top[i]]>>]

\* col.nunique()
NUnique(col) == Cardinality({col[i].v : i \in 1..Len(col)})

\* df[df['src_ip'] == ip]['dst_port'].nunique()
PortsTargeted(logs, ip) ==
  IF HasColumn(logs, "dst_port")
  THEN Cardinality({logs[i].ev.dst_port : i \in
         {j \in 1..Len(logs) : /\ {"src_ip", "dst_port"} \subseteq logs[j].ev.keys
                               /\ logs[j].ev.src_ip = ip}})
  ELSE 0

\* pd.to_datetime raises on a value that is no date
TimestampFault(logs) ==
  \E i \in 1..Len(logs) : "timestamp" \in logs[i].ev.keys /\ ~logs[i].ev.ts_ok

Stamps(logs) == {logs[i].ev.timestamp : i \in
                   {j \in 1..Len(logs) : "timestamp" \in logs[j].ev.keys}}

SetMax(S) == CHOOSE x \in S : \A y \in S : y <= x

SetMin(S) == CHOOSE x \in S : \A y \in S : x <= y

\* features['time_range']: has |-> FALSE is None; the duration is kept in seconds
TimeRange(logs) ==
  IF HasColumn(logs, "timestamp")
  THEN [has |-> TRUE, duration_seconds |-> SetMax(Stamps(logs)) - SetMin(Stamps(logs))]
  ELSE [has |-> FALSE, duration_seconds |-> 0]

_extract_features(logs, known) ==
  LET ipf == IF HasColumn(logs, "src_ip")
             THEN ValueCounts(Column(logs, "src_ip")) ELSE <<>>
  IN [total_events   |-> TotalEvents(logs),
      unique_ips     |-> IF HasColumn(logs, "src_ip")
                         THEN NUnique(Column(logs, "src_ip")) ELSE 0,
      unique_ports   |-> IF HasColumn(logs, "dst_port")
                         THEN NUnique(Column(logs, "dst_port")) ELSE 0,
      time_range     |-> TimeRange(logs),
      ip_frequency   |-> ipf,
      port_frequency |-> IF HasColumn(logs, "dst_port")
                         THEN ValueCounts(Column(logs, "dst_port")) ELSE <<>>,
      patterns       |-> [i \in 1..Len(ipf) |->
                            [ip |-> ipf[i][1],
                             is_known_malicious |-> ipf[i][1] \in known,
                             frequency |-> ipf[i][2],
                             ports_targeted |-> PortsTargeted(logs, ipf[i][1])]]]

(***************************************************************************)
(* The stages of a pass.                                                   *)
(***************************************************************************)
Attack(type, severity, ip, confidence) ==
  [type |-> type, severity |-> severity, source_ip |-> ip, confidence |-> confidence]

BruteForceAttack(data) ==
  Attack("brute_force", IF data.frequency > 50 THEN "high" ELSE "medium", data.ip,
         Min((9 * Unit) \div 10, (data.frequency * Unit) \div 100))

PortScanAttack(data) ==
  Attack("port_scan", "medium", data.ip,
         Min((95 * Unit) \div 100, (data.ports_targeted * Unit) \div 20))

\* one brute_force attack per source with more than 10 events, then one port_scan
\* attack per source with more than 5 ports, each in the order of the table
_classify_attacks(features) ==
  LET brute == SelectSeq(features.patterns, LAMBDA d : d.frequency > 10)
      scan  == SelectSeq(features.patterns, LAMBDA d : d.ports_targeted > 5)
  IN [i \in 1..Len(brute) |-> BruteForceAttack(brute[i])]
     \o [i \in 1..Len(scan) |-> PortScanAttack(scan[i])]

CommonPorts == {22, 80, 443, 21, 25, 53, 3389}

Anomaly(type, severity, confidence) ==
  [type |-> type, severity |-> severity, confidence |-> confidence]

_detect_anomalies(features) ==
  LET top_ports == [i \in 1..Len(features.port_frequency) |-> features.port_frequency[i][1]]
      unusual_ports == SelectSeq(top_ports, LAMBDA q : q \notin CommonPorts)
  IN (IF /\ features.time_range.has
         /\ features.time_range.duration_seconds < 60
         /\ features.total_events > 100
      THEN <<Anomaly("temporal_anomaly", "medium", (8 * Unit) \div 10)>> ELSE <<>>)
     \o (IF Len(unusual_ports) > 3
         THEN <<Anomaly("unusual_ports", "low", (6 * Unit) \div 10)>> ELSE <<>>)

(***************************************************************************)
(* AnomalyDetector.detect (anamoly_detector.py), on the batch as a data    *)
(* frame.  analyze_logs never calls it: the anomalies of a report are      *)
(* those of _detect_anomalies above.                                       *)
(***************************************************************************)
\* col.value_counts(): every value with its count, by descending count
AllCounts(col) ==
  LET seen == Dedup([i \in 1..Len(col) |-> col[i].v])
      cnt  == [v \in SeqRange(seen) |-> CountOf(col, v)]
      all  == SortDesc(seen, cnt)
  IN [i \in 1..Len(all) |-> <<all[i], cnt[all[i]]>>]

SpikeAnomaly(ip, count) ==
  [type |-> "IP Frequency Spike", ip |-> ip,
   severity |-> IF count > 100 THEN "high" ELSE "medium",
   confidence |-> Min((95 * Unit) \div 100, (count * Unit) \div 150)]

\* one anomaly per source with more than 50 events
FrequencySpikes(logs) ==
  IF HasColumn(logs, "src_ip")
  THEN LET top_ips == SelectSeq(AllCounts(Column(logs, "src_ip")), LAMBDA e : e[2] > 50)
       IN [i \in 1..Len(top_ips) |-> SpikeAnomaly(top_ips[i][1], top_ips[i][2])]
  ELSE <<>>

\* detect has no try: what pd.to_datetime raises on a timestamp that is no
\* date leaves it (raises); otherwise it returns the list of anomalies
detect(logs) ==
  IF logs = <<>> THEN [raises |-> FALSE, anomalies |-> <<>>]
  ELSE IF TimestampFault(logs) THEN [raises |-> TRUE, anomalies |-> <<>>]
  ELSE [raises |-> FALSE,
        anomalies |->
          (IF /\ HasColumn(logs, "timestamp")
              /\ SetMax(Stamps(logs)) - SetMin(Stamps(logs)) < 60
              /\ TotalEvents(logs) > 100
           THEN <<Anomaly("Temporal Burst", "medium", (8 * Unit) \div 10)>> ELSE <<>>)
          \o (IF /\ HasColumn(logs, "dst_port")
                 /\ Cardinality({Column(logs, "dst_port")[i].v :
                                   i \in 1..Len(Column(logs, "dst_port"))} \ CommonPorts) > 5
              THEN <<Anomaly("Unusual Port Targeting", "low", (6 * Unit) \div 10)>>
              ELSE <<>>)
          \o FrequencySpikes(logs)]

Threat(severity, type, ip, attack_types) ==
  [severity |-> severity, type |-> type, source |-> ip, attack_types |-> attack_types]

AttacksOf(attacks, ip) == SelectSeq(attacks, LAMBDA a : a.source_ip = ip)

\* the sources of the attacks in the order they are first met (the keys of
\* ip_attacks)
AttackSources(attacks) == Dedup([i \in 1..Len(attacks) |-> attacks[i].source_ip])

\* a variant of PersistentSources that takes every source with an attack
PersistentSourcesAny(attacks) ==
  SelectSeq(AttackSources(attacks), LAMBDA ip : Len(AttacksOf(attacks, ip)) >= 1)

\* the keys of ip_attacks whose list has more than one attack
PersistentSources(attacks) ==
  SelectSeq(AttackSources(attacks), LAMBDA ip : Len(AttacksOf(attacks, ip)) > 1)

\* ip.encode() raises for a source that is no str
ThreatFault(attacks) ==
  \E i \in 1..Len(PersistentSources(attacks)) : ~IsStr(PersistentSources(attacks)[i])

\* one critical threat per attack of severity high
ImmediateThreats(attacks) ==
  LET critical_attacks == SelectSeq(attacks, LAMBDA a : a.severity = "high")
  IN [i \in 1..Len(critical_attacks) |->
        Threat("critical", "immediate_threat", critical_attacks[i].source_ip,
               <<critical_attacks[i].type>>)]

\* one high threat per source with more than one attack
PersistentThreats(attacks) ==
  LET persistent == PersistentSources(attacks)
  IN [i \in 1..Len(persistent) |->
        Threat("high", "persistent_threat", persistent[i],
               [j \in 1..Len(AttacksOf(attacks, persistent[i])) |->
                  AttacksOf(attacks, persistent[i])[j].type])]

\* a variant of _analyze_threats that lists the persistent threats first
AnalyzeThreatsPersistentFirst(attacks, anomalies) ==
  PersistentThreats(attacks) \o ImmediateThreats(attacks)

_analyze_threats(attacks, anomalies) ==
  ImmediateThreats(attacks) \o PersistentThreats(attacks)

critical_ports == <<22, 21, 80, 443, 3389, 25, 53, 135, 139, 445>>

\* port_freq[port], 0 when the port is not in the table
FreqOf(table, v) ==
  IF \E i \in 1..Len(table) : table[i][1] = v
  THEN table[CHOOSE i \in 1..Len(table) : table[i][1] = v][2]
  ELSE 0

\* a variant of _identify_high_value_ports without the limit of ten
IdentifyHighValuePortsUncut(features) ==
  LET port_freq == features.port_frequency
      listed == SelectSeq(critical_ports, LAMBDA q : FreqOf(port_freq, q) > 5)
      keys   == [i \in 1..Len(port_freq) |-> port_freq[i][1]]
      others == SelectSeq(keys, LAMBDA q : FreqOf(port_freq, q) > 10
                                            /\ q \notin SeqRange(listed))
  IN listed \o others

_identify_high_value_ports(features) ==
  LET port_freq == features.port_frequency
      listed == SelectSeq(critical_ports, LAMBDA q : FreqOf(port_freq, q) > 5)
      keys   == [i \in 1..Len(port_freq) |-> port_freq[i][1]]
      others == SelectSeq(keys, LAMBDA q : FreqOf(port_freq, q) > 10
                                            /\ q \notin SeqRange(listed))
  IN Take(listed \o others, 10)

Recommendation(type, priority, action, ports, count, ips) ==
  [type |-> type, priority |-> priority, action |-> action,
   ports |-> ports, count |-> count, ips |-> ips]

\* the recommendation to deploy honeypots, made when there are threats
AdaptRecommendation(threats, features) ==
  LET high_value_ports == _identify_high_value_ports(features)
  IN IF Len(threats) > 0
     THEN <<Recommendation("adapt", "high", "spawn_honeypots", high_value_ports,
                           Min(5, Len(high_value_ports)), <<>>)>>
     ELSE <<>>

\* a variant of BlockRecommendation that lists every source of the table
BlockRecommendationAll(features) ==
  LET ipf == features.ip_frequency
  IN IF \E i \in 1..Len(ipf) : ipf[i][2] > 20
     THEN <<Recommendation("security_policy", "critical", "block_ips", <<>>, 0,
                           [i \in 1..Len(ipf) |-> ipf[i][1]])>>
     ELSE <<>>

\* the recommendation to block the sources with more than 20 events
BlockRecommendation(features) ==
  LET frequent == SelectSeq(features.ip_frequency, LAMBDA e : e[2] > 20)
      frequent_attackers == [i \in 1..Len(frequent) |-> frequent[i][1]]
  IN IF frequent_attackers # <<>>
     THEN <<Recommendation("security_policy", "critical", "block_ips", <<>>, 0,
                           frequent_attackers)>>
     ELSE <<>>

\* the recommendation to watch the first five ports of the table
MonitoringRecommendation(features) ==
  LET keys == [i \in 1..Len(features.port_frequency) |-> features.port_frequency[i][1]]
  IN IF features.unique_ports > 10
     THEN <<Recommendation("monitoring", "medium", "enhance_monitoring",
                           Take(keys, 5), 0, <<>>)>>
     ELSE <<>>

_generate_recommendations(threats, features) ==
  AdaptRecommendation(threats, features)
  \o BlockRecommendation(features)
  \o MonitoringRecommendation(features)

(***************************************************************************)
(* The rate of a batch.  The program divides doubles:                      *)
(*   duration_minutes = seconds / 60        (line 125)                     *)
(*   events_per_minute = total / duration_minutes       (line 404)         *)
(* and each division rounds to the nearest double.  Away from a threshold  *)
(* the rounding cannot change the comparison; when total * 60 equals       *)
(* limit * seconds exactly, the comparison is decided by how seconds / 60  *)
(* was rounded.  seconds / 60 is seconds / 15 shifted by two binary        *)
(* places, and the binary fraction of r / 15 repeats the four bits of r,   *)
(* so what the rounding cuts off is known from seconds mod 15 and the      *)
(* binade of seconds / 60.                                                 *)
(***************************************************************************)
\* whether total / (seconds / 60), which is exactly limit, comes out above
\* limit: duration_minutes was rounded down by more than half a last place of
\* limit.
\*   up, down: 2^up <= seconds / 60 < 2^(up + 1) for a minute or more,
\*             2^(-down) <= seconds / 60 < 2^(1 - down) for less;
\*   cut: what the double nearest to seconds / 60 leaves out of it, in
\*        fifteenths of its last binary place (0 exact, 1..7 rounded down,
\*        8..14 rounded up);
\*   power: the largest power of two that is at most limit.
RoundsAbove(secs, limit) ==
  LET up    == IF secs < 60 THEN 0
               ELSE CHOOSE u \in 0..24 : 60 * 2^u <= secs /\ secs < 60 * 2^(u + 1)
      down  == IF secs >= 60 THEN 0
               ELSE CHOOSE d \in 1..6 : secs * 2^d >= 60 /\ secs * 2^(d - 1) < 60
      cut   == ((secs % 15) * 2^((50 - up + down) % 4)) % 15
      power == CHOOSE q \in {2^k : k \in 0..10} : q <= limit /\ limit < 2 * q
  IN /\ 0 < cut /\ cut < 8
     /\ 2 * cut * limit * 60 * 2^up > 15 * secs * power * 2^down

\* events_per_minute > limit, for total events over a duration of secs seconds
RateAbove(total, secs, limit) ==
  \/ total * 60 > limit * secs
  \/ total * 60 = limit * secs /\ RoundsAbove(secs, limit)

_calculate_attack_intensity(features) ==
  IF ~features.time_range.has \/ features.time_range.duration_seconds = 0
  THEN "Unknown"
  ELSE LET total == features.total_events
           secs  == features.time_range.duration_seconds
       IN IF RateAbove(total, secs, 50) THEN "Critical"
          ELSE IF RateAbove(total, secs, 20) THEN "High"
          ELSE IF RateAbove(total, secs, 5) THEN "Medium"
          ELSE "Low"

\* ten times the score of _calculate_threat_level
ThreatScore10(features, known) ==
  LET ipf == features.ip_frequency
      malicious_count == Cardinality({i \in 1..Len(ipf) : ipf[i][1] \in known})
      max_freq == IF ipf = <<>> THEN 0 ELSE SetMax({ipf[i][2] : i \in 1..Len(ipf)})
  IN Min(features.unique_ips * 20, 200) + Min(features.unique_ports * 15, 150)
     + malicious_count * 100 + Min(max_freq, 250)

\* a variant of _calculate_threat_level whose buckets include their lower bound
ThreatLevelInclusive(features, known) ==
  LET score10 == ThreatScore10(features, known)
  IN IF score10 >= 600 THEN "Critical"
     ELSE IF score10 >= 400 THEN "High"
     ELSE IF score10 >= 200 THEN "Medium"
     ELSE "Low"

_calculate_threat_level(features, known) ==
  LET score10 == ThreatScore10(features, known)
  IN IF score10 > 600 THEN "Critical"
     ELSE IF score10 > 400 THEN "High"
     ELSE IF score10 > 200 THEN "Medium"
     ELSE "Low"

\* max(table.items(), key=count, default=('None', 0)): the first entry of the
\* largest count
TopEntry(table) ==
  IF table = <<>> THEN <<"None", 0>>
  ELSE table[CHOOSE i \in 1..Len(table) :
               /\ \A j \in 1..Len(table) : table[j][2] <= table[i][2]
               /\ \A j \in 1..(i - 1) : table[j][2] < table[i][2]]

_generate_statistics(features, known) ==
  [keys |-> {"total_events", "unique_attackers", "ports_targeted", "top_attacker",
             "most_targeted_port", "attack_intensity", "threat_level"},
   total_events     |-> features.total_events,
   unique_attackers |-> features.unique_ips,
   ports_targeted   |-> features.unique_ports,
   top_attacker     |-> TopEntry(features.ip_frequency)[2],
   most_targeted_port |-> TopEntry(features.port_frequency)[2],
   attack_intensity |-> _calculate_attack_intensity(features),
   threat_level     |-> _calculate_threat_level(features, known)]

(***************************************************************************)
(* The reputation tracker.                                                 *)
(***************************************************************************)
\* a variant of CurrentScore that forgets the stored score
CurrentScoreReset(scores, ip) == NeutralStart

\* self.reputation_scores.get(ip, 50)
CurrentScore(scores, ip) == IF ip \in DOMAIN scores THEN scores[ip] ELSE NeutralStart

\* a variant of Penalty without the cap
PenaltyUncapped(frequency) == frequency * PenaltyPerEvent

Penalty(frequency) == Min(frequency * PenaltyPerEvent, PenaltyCap)

\* a variant of NewScore without the floor at 0
NewScoreUnclamped(current_score, frequency, ip, known) ==
  current_score - Penalty(frequency)
  - (IF ip \in known THEN MaliciousPenalty ELSE 0)

NewScore(current_score, frequency, ip, known) ==
  LET new_score == Max(0, current_score - Penalty(frequency))
  IN IF ip \in known THEN Max(0, new_score - MaliciousPenalty) ELSE new_score

\* frequency stands for the reason, 'Attack frequency: {frequency}'
Update(current_score, new_score, frequency) ==
  [old_score |-> current_score, new_score |-> new_score,
   change |-> new_score - current_score, frequency |-> frequency]

\* a variant of Store that leaves the dict as it was
StoreDropped(scores, ip, v) == scores

\* scores with scores[ip] set to v (a dict assignment)
Store(scores, ip, v) ==
  [k \in DOMAIN scores \cup {ip} |-> IF k = ip THEN v ELSE scores[k]]

RECURSIVE ReputationLoop(_, _, _, _)
\* the loop over features['ip_frequency'].items(): the scores and the updates
\* after the entries of table, starting from scores and updates
ReputationLoop(table, scores, updates, known) ==
  IF table = <<>> THEN [scores |-> scores, updates |-> updates]
  ELSE LET ip == Head(table)[1]
           frequency == Head(table)[2]
           current_score == CurrentScore(scores, ip)
           new_score == NewScore(current_score, frequency, ip, known)
       IN ReputationLoop(Tail(table), Store(scores, ip, new_score),
                         Store(updates, ip, Update(current_score, new_score, frequency)),
                         known)

\* no updates yet: the empty dict
NoUpdates == [k \in {} |-> 0]

\* no thread is in _update_models: the identity of the stored lists plays no part
NoLists == [stored |-> NoUpdates, dropped |-> NoUpdates]

_get_reputation_updates(features, scores, known) ==
  ReputationLoop(features.ip_frequency, scores, NoUpdates, known)

(***************************************************************************)
(* The attack-pattern history: per attack type, the stored entries in the  *)
(* order they were appended.  An entry is written as the hour of its       *)
(* 'timestamp', the one field the program reads back; its source_ip,       *)
(* confidence and indicators are copies of the attack's.                   *)
(***************************************************************************)
\* the attacks of a pass as _classify_attacks dates them: each holds the
\* datetime.now() of the pass under 'timestamp'
Dated(attacks, now) ==
  [i \in 1..Len(attacks) |->
     [f \in DOMAIN attacks[i] \cup {"timestamp"} |->
        IF f = "timestamp" THEN now ELSE attacks[i][f]]]

\* the entries later than cutoff_time = now - timedelta(hours=24)
Recent(entries, now) == SelectSeq(entries, LAMBDA stamp : stamp > now - KeepHours)

\* self.attack_patterns[attack_type] = entries
SetPattern(patterns, attack_type, entries) ==
  [k \in DOMAIN patterns \cup {attack_type} |->
     IF k = attack_type THEN entries ELSE patterns[k]]

RECURSIVE _update_models(_, _, _)
\* self.attack_patterns after the loop over attacks.  The try block of the
\* function ends the loop at the first attack that lacks a key the loop
\* reads, with what was stored before: the list of its attack type is
\* already made when a key of the entry is found missing.
_update_models(patterns, attacks, now) ==
  IF attacks = <<>> THEN patterns
  ELSE LET attack == Head(attacks)
       IN IF "type" \notin DOMAIN attack THEN patterns
          ELSE LET made == IF attack.type \in DOMAIN patterns THEN patterns
                           ELSE SetPattern(patterns, attack.type, <<>>)
               IN IF ~({"timestamp", "source_ip", "confidence"} \subseteq DOMAIN attack)
                  THEN made
                  ELSE _update_models(
                         SetPattern(made, attack.type,
                                    Recent(Append(made[attack.type], attack.timestamp),
                                           now)),
                         Tail(attacks), now)

\* the number of stored entries
PatternCount(patterns) ==
  LET ts == DOMAIN patterns
  IN (IF "brute_force" \in ts THEN Len(patterns["brute_force"]) ELSE 0)
     + (IF "port_scan" \in ts THEN Len(patterns["port_scan"]) ELSE 0)

(***************************************************************************)
(* Reports.                                                                *)
(***************************************************************************)
NoStatistics ==
  [keys |-> {}, total_events |-> 0, unique_attackers |-> 0, ports_targeted |-> 0,
   top_attacker |-> 0, most_targeted_port |-> 0,
   attack_intensity |-> "", threat_level |-> ""]

Report(keys, attacks, anomalies, threats, recommendations, statistics, updates) ==
  [keys |-> keys, attacks |-> attacks, anomalies |-> anomalies, threats |-> threats,
   recommendations |-> recommendations, statistics |-> statistics,
   reputation_updates |-> updates]

FullKeys == {"timestamp", "attacks", "anomalies", "threats", "recommendations",
             "statistics", "reputation_updates"}

ErrorKeys == {"error", "timestamp", "attacks", "anomalies", "threats", "recommendations"}

\* a variant of _empty_response that reports the intensity of a pass without
\* timestamps
EmptyResponseUnknown ==
  Report(FullKeys, <<>>, <<>>, <<>>, <<>>,
         [NoStatistics EXCEPT !.keys = {"total_events", "unique_attackers",
                                         "ports_targeted", "attack_intensity",
                                         "threat_level"},
                              !.attack_intensity = "Unknown",
                              !.threat_level = "Low"],
         NoUpdates)

_empty_response ==
  Report(FullKeys, <<>>, <<>>, <<>>, <<>>,
         [NoStatistics EXCEPT !.keys = {"total_events", "unique_attackers",
                                         "ports_targeted", "attack_intensity",
                                         "threat_level"},
                              !.attack_intensity = "None",
                              !.threat_level = "Low"],
         NoUpdates)

\* the dict returned by the except clause of analyze_logs
ErrorReport == Report(ErrorKeys, <<>>, <<>>, <<>>, <<>>, NoStatistics, NoUpdates)

\* before the first call
NoReport == Report({}, <<>>, <<>>, <<>>, <<>>, NoStatistics, NoUpdates)

(***************************************************************************)
(* analyze_logs.  `fault` names the stage in which an exception is raised  *)
(* as the stage is entered ("none": no such exception); besides it, a      *)
(* value pd.to_datetime cannot parse raises in the feature extraction and  *)
(* a persistent source that is no str raises in the threat analysis.       *)
(***************************************************************************)
\* a variant of Stages in which the reputation update precedes the statistics
StagesReputationFirst ==
  <<"extract", "classify", "anomalies", "threats", "recommendations",
    "update_models", "reputation", "statistics">>

Stages == <<"extract", "classify", "anomalies", "threats", "recommendations",
            "update_models", "statistics", "reputation">>

StageIndex(stage) == CHOOSE i \in 1..Len(Stages) : Stages[i] = stage

\* the stages of a pass that read only the batch and the known-malicious set,
\* in the order analyze_logs runs them, and the stage in which the batch itself
\* makes the pass raise ("none": in no stage)
Pipeline(logs, known) ==
  LET features == _extract_features(logs, known)
      classified_attacks == _classify_attacks(features)
      anomalies == _detect_anomalies(features)
      threats == _analyze_threats(classified_attacks, anomalies)
  IN [raises |-> IF TimestampFault(logs) THEN "extract"
                 ELSE IF ThreatFault(classified_attacks) THEN "threats"
                 ELSE "none",
      features |-> features,
      attacks |-> classified_attacks,
      anomalies |-> anomalies,
      threats |-> threats,
      recommendations |-> _generate_recommendations(threats, features),
      statistics |-> _generate_statistics(features, known)]

\* the first stage of the pass in which an exception is raised
Raised(pipe, fault) ==
  IF fault = "none" THEN pipe.raises
  ELSE IF pipe.raises = "none" THEN fault
  ELSE IF StageIndex(pipe.raises) <= StageIndex(fault) THEN pipe.raises ELSE fault

\* the stage in which the pass fails, "none" when it completes:
\* _update_models catches what is raised in it and the pass goes on
FailedStage(pipe, fault) ==
  IF Raised(pipe, fault) = "update_models" THEN "none" ELSE Raised(pipe, fault)

\* whether the pass reaches the given stage and completes it
Completes(pipe, fault, stage) ==
  /\ Raised(pipe, fault) # stage
  /\ \/ FailedStage(pipe, fault) = "none"
     \/ StageIndex(stage) < StageIndex(FailedStage(pipe, fault))

\* the report of a pass on a non-empty batch
PassReport(pipe, fault, scores, known) ==
  IF FailedStage(pipe, fault) # "none" THEN ErrorReport
  ELSE Report(FullKeys, pipe.attacks, pipe.anomalies, pipe.threats,
              pipe.recommendations, pipe.statistics,
              _get_reputation_updates(pipe.features, scores, known).updates)

\* a variant of TryCovers in which the returned dict is built after the try block
TryCoversUpToModels(stage) == stage \in SeqRange(Stages) \ {"statistics", "reputation"}

\* whether the try block of analyze_logs covers the stage: it covers them all
TryCovers(stage) == stage \in SeqRange(Stages)

\* how a call ends: "returned" with a report, or "raised" past the caller
Outcome(logs, pipe, fault) ==
  IF logs # <<>> /\ FailedStage(pipe, fault) # "none"
                 /\ ~TryCovers(FailedStage(pipe, fault))
  THEN "raised" ELSE "returned"

\* analyze_logs on the batch logs, whose stages are pipe = Pipeline(logs, known)
analyze_logs(logs, pipe, fault) ==
  /\ UNCHANGED <<known_malicious_ips, lists, clock>>
  /\ call' = [logs |-> logs, fault |-> fault, outcome |-> Outcome(logs, pipe, fault)]
  /\ IF logs = <<>>
     THEN /\ report' = _empty_response
          /\ UNCHANGED <<reputation_scores, attack_patterns>>
     ELSE /\ report' = IF Outcome(logs, pipe, fault) = "raised" THEN report
                       ELSE PassReport(pipe, fault, reputation_scores, known_malicious_ips)
          /\ attack_patterns' =
               IF Completes(pipe, fault, "update_models")
               THEN _update_models(attack_patterns, Dated(pipe.attacks, clock), clock)
               ELSE attack_patterns
          /\ reputation_scores' =
               IF Completes(pipe, fault, "reputation")
               THEN _get_reputation_updates(pipe.features, reputation_scores,
                                            known_malicious_ips).scores
               ELSE reputation_scores
          /\ PatternCount(attack_patterns') <= MaxPatterns

(***************************************************************************)
(* The batches and faults the passes are run on.                           *)
(***************************************************************************)
AllKeys == {"src_ip", "dst_port", "timestamp"}

RunSizes == {5, MaxRun}

\* n well-formed events of one source to port 22 at second ts
Plain(ip, n, ts) == Run(Event(AllKeys, ip, 22, ts, TRUE), n)

\* thirty events of one source over six ports
Sweep(ip) == [q \in 1..6 |-> Run(Event(AllKeys, ip, 8000 + q, q, TRUE), 5)]

\* sixty events of one source to port 22 within ten seconds
ScenarioA ==
  <<Run(Event(AllKeys, "10.0.0.1", 22, 0, TRUE), 30),
    Run(Event(AllKeys, "10.0.0.1", 22, 10, TRUE), 30)>>

\* twenty events of one source over eight ports
ScenarioC ==
  [q \in 1..8 |-> Run(Event(AllKeys, "10.0.0.1", 9000 + q, q, TRUE),
                      IF q <= 4 THEN 3 ELSE 2)]

\* fifty-six events of one source over eleven ports, port 22 among them
WideSweep ==
  [q \in 1..11 |-> Run(Event(AllKeys, "10.0.0.1", IF q = 1 THEN 22 ELSE 8000 + q, q, TRUE),
                       IF q = 1 THEN 6 ELSE 5)]

\* the sources of a crowd: the first m of them known-malicious
CrowdSource(i, m) ==
  IF i <= m THEN <<"192.168.1.100", "10.0.0.50", "172.16.0.10">>[i]
  ELSE <<"10.0.3.1", "10.0.3.2", "10.0.3.3", "10.0.3.4", "10.0.3.5", "10.0.3.6",
         "10.0.3.7", "10.0.3.8", "10.0.3.9", "10.0.3.10", "10.0.3.11">>[i]

\* ten sources with ten events each, after a single event of an eleventh
Eleven ==
  [i \in 1..11 |-> IF i = 1 THEN Plain("10.0.0.1", 1, 0)
                   ELSE Plain(CrowdSource(i - 1, 0), 10, i)]

\* the seconds between the first and the last of five events: 60, 50, 20 and 5
\* events per minute
Gaps == {5, 6, 15, 60}

\* five events of one source, the last one d seconds after the others
Spread(d) == <<Plain("10.0.0.1", 4, 0), Plain("10.0.0.1", 1, d)>>

\* 115 events of one source within 138 seconds: 50 events per minute
AtFifty == <<Plain("10.0.0.1", 114, 0), Plain("10.0.0.1", 1, 138)>>

Batches ==
  {<<>>, ScenarioA, ScenarioC, WideSweep, Eleven, AtFifty}
  \cup {Spread(d) : d \in Gaps}
  \cup {<<Plain(ip, n, 0)>> : ip \in {"192.168.1.100", "10.0.0.1"}, n \in RunSizes}
  \cup {<<Plain("10.0.0.1", n, 0), Plain("192.168.1.100", 5 + MaxRun - n, 30)>> :
          n \in RunSizes}
  \cup {Sweep(ip) : ip \in {"192.168.1.100", "10.0.0.1", "int:7"}}
  \* a source over six ports and another on one port
  \cup {Sweep("10.0.0.1") \o <<Plain("192.168.1.100", MaxRun, 30)>>}
  \* events with absent fields
  \cup {<<Run(Event(keys, "10.0.0.1", 22, 0, TRUE), MaxRun)>> :
          keys \in SUBSET AllKeys \ {AllKeys}}
  \cup {<<Run(Event({}, "10.0.0.1", 22, 0, TRUE), 1), Plain("10.0.0.1", 5, 5)>>}
  \* events whose timestamp is no date
  \cup {<<Run(Event(AllKeys, "10.0.0.1", 22, 0, FALSE), 5)>>}
  \cup {<<Plain("192.168.1.100", 5, 0),
          Run(Event({"timestamp"}, "10.0.0.1", 22, 0, FALSE), 1)>>}

\* Pipeline over the batches, for each value of self.known_malicious_ips
PipelineOf == [known \in IntelStates |-> [logs \in Batches |-> Pipeline(logs, known)]]

\* the stages of a pass on the batch in the current state of the analyzer
Pipe(logs) == PipelineOf[known_malicious_ips][logs]

Faults == {"none"} \cup SeqRange(Stages)

\* the batches on which a stage is made to raise
FaultBatches == {<<Plain("10.0.0.1", 5, 0)>>, Sweep("192.168.1.100"), Sweep("int:7")}

\* the calls of analyze_logs: every batch undisturbed, some with a stage raising
Calls == (Batches \X {"none"}) \cup (FaultBatches \X Faults)

(***************************************************************************)
(* The specification of the analyzer.                                      *)
(***************************************************************************)
NoCall == [logs |-> <<>>, fault |-> "none", outcome |-> "none"]

\* the state after HoneypotAIAnalyzer()
Init ==
  /\ known_malicious_ips \in IntelStates
  /\ reputation_scores = NoUpdates
  /\ attack_patterns = NoUpdates
  /\ lists = NoLists
  /\ clock = 0
  /\ call = NoCall
  /\ report = NoReport
  /\ is_trained = TRUE
  /\ attack_signatures = BuiltinSignatures
  /\ classified = [outcome |-> "none"]
  /\ passes = [t \in Threads |-> Idle]
  /\ probe = NoProbe

\* a call of analyze_logs, one of calls
AnalyzeLogsOf(calls) ==
  \E c \in calls :
    /\ analyze_logs(c[1], Pipe(c[1]), c[2])
    /\ UNCHANGED <<classifierVars, passes, probe>>

AnalyzeLogs == AnalyzeLogsOf(Calls)

Next == AnalyzeLogs

\* the passes of one day: the clock stands at the hour the analyzer was made
Spec == Init /\ [][Next]_vars

(***************************************************************************)
(* Passes that are hours and days apart: the entries an earlier pass       *)
(* stored grow old and a later pass drops them.                            *)
(***************************************************************************)
\* time passes between two calls
Tick ==
  /\ clock + TickHours <= MaxHours
  /\ clock' = clock + TickHours
  /\ UNCHANGED <<known_malicious_ips, reputation_scores, attack_patterns, lists, call,
                 report, classifierVars, passes, probe>>

\* calls at any hour, and the hours between them
AgingNext ==
  \/ AnalyzeLogsOf({<<<<>>, "none">>}
                   \cup ({ScenarioA, <<Plain("10.0.0.1", 5, 0)>>, Sweep("10.0.0.1"),
                          Sweep("192.168.1.100")}
                         \X {"none", "update_models", "statistics"}))
  \/ Tick

AgingSpec == Init /\ [][AgingNext]_vars

(***************************************************************************)
(* The attack classifier (classifier.py).                                  *)
(*                                                                         *)
(* A log entry is a dict with the keys `keys`; message_is_str tells        *)
(* whether the value under 'message' is a str (None or a number is not).   *)
(* The messages are those of Catalogue, each with the patterns that        *)
(* re.search(pattern, message.lower(), re.IGNORECASE) finds in it.         *)
(***************************************************************************)
\* at most this many patterns are added to the signatures the classifier is
\* made with
MaxUpdates == 1

\* len(config['patterns'])
PatternTotal(config) == Len(config.patterns)

\* the arguments of update_signatures: a further brute_force pattern, a new
\* attack type whose pattern finds something in every message, and a pattern
\* that is no regular expression
NewPatterns ==
  {Signature("brute_force", <<"Failed password for">>),
   Signature("suspicious", <<".*">>),
   Signature("malware", <<"(">>)}

\* update_signatures for one item of new_patterns: the patterns are added to
\* those of a type the dict holds, another type goes to the end of the dict
update_signatures(signatures, new) ==
  IF \E k \in 1..Len(signatures) : signatures[k].attack_type = new.attack_type
  THEN [k \in 1..Len(signatures) |->
          IF signatures[k].attack_type = new.attack_type
          THEN Signature(new.attack_type, signatures[k].patterns \o new.patterns)
          ELSE signatures[k]]
  ELSE Append(signatures, Signature(new.attack_type, new.patterns))

RECURSIVE SignaturesAfter(_)
\* the signatures after n calls of update_signatures
SignaturesAfter(n) ==
  IF n = 0 THEN {BuiltinSignatures}
  ELSE SignaturesAfter(n - 1)
       \cup {update_signatures(g, new) : g \in SignaturesAfter(n - 1), new \in NewPatterns}

\* the values self.attack_signatures takes
SignatureSets == SignaturesAfter(MaxUpdates)

Sample(text, found) ==
  [text |-> text, length |-> Len(text), has_error |-> FALSE, found |-> found]

Catalogue ==
  {
    Sample("",
           {".*"}),
    Sample("Failed password for root",
           {"Failed password for", ".*"}),
    Sample("Failed password for admin from 192.168.1.100 port 45678",
           {"Failed password for.*from.*port", "Failed password for", ".*"}),
    Sample("Failed login attempt: Invalid user bob from 10.0.0.9",
           {"Invalid user.*from.*", "Failed login attempt", ".*"}),
    Sample("Failed login attempt; authentication failure rhost=10.0.0.9; Invalid user bob from 10.0.0.9; Failed password for bob from 10.0.0.9 port 22",
           {"Failed password for.*from.*port", "authentication failure.*rhost=", "Invalid user.*from.*", "Failed login attempt", "Failed password for", ".*"}),
    Sample("Connection attempt to port 8080 refused",
           {"Connection attempt.*refused", ".*"}),
    Sample("SYN flood detected",
           {"SYN flood detected", "SYN flood", ".*"}),
    Sample("Failed login attempt; Rate limit exceeded",
           {"Failed login attempt", "Rate limit exceeded", ".*"}),
    Sample("GET /admin/login.php?id=1 UNION SELECT * FROM users",
           {"union.*select", ".*"}),
    Sample("GET /q?id=1 UNION SELECT a FROM users WHERE 1=1",
           {"SELECT.*FROM.*WHERE", "union.*select", ".*"}),
    Sample("GET /../../etc/passwd?cmd=ls& <script>eval(1)</script> UNION SELECT a FROM users WHERE 1=1",
           {"GET.*\\.\\./\\.\\.", "SELECT.*FROM.*WHERE", "<script.*>.*</script>", "union.*select", "eval\\(", "cmd=.*&", ".*"}),
    Sample("Known malware signature",
           {"Known malware signature", ".*"}),
    Sample("Known malware signature; Suspicious file upload; Backdoor detected; Trojan activity",
           {"Known malware signature", "Suspicious file upload", "Backdoor detected", "Trojan activity", ".*"}),
    Sample("Failed password for root; Failed login attempt; SYN flood; UDP flood",
           {"Failed login attempt", "SYN flood", "UDP flood", "Failed password for", ".*"}),
    Sample("Failed login attempt; Port scan detected",
           {"Failed login attempt", "Port scan detected", ".*"}),
    Sample("Failed password for root; Failed login attempt; Invalid user bob from x; SYN flood; UDP flood; Connection flood",
           {"Invalid user.*from.*", "Failed login attempt", "SYN flood", "UDP flood", "Connection flood", "Failed password for", ".*"}),
    [Sample("error: connection reset",
            {".*"}) EXCEPT !.has_error = TRUE] }

Texts == {c.text : c \in Catalogue}

SampleOf(text) == CHOOSE c \in Catalogue : c.text = text

LogEntry(keys, message, is_str, dst_port) ==
  [keys |-> keys, message |-> message, message_is_str |-> is_str, dst_port |-> dst_port]

\* log_entry.get('message', '')
Message(log_entry) == IF "message" \in log_entry.keys THEN log_entry.message ELSE ""

\* log_entry.get('dst_port', 0)
DstPort(log_entry) == IF "dst_port" \in log_entry.keys THEN log_entry.dst_port ELSE 0

\* a variant of LowerRaises in which the message is read as log_entry['message']
LowerRaisesOnMissing(log_entry) ==
  "message" \notin log_entry.keys \/ ~log_entry.message_is_str

\* .lower() raises AttributeError on a message that is no str
LowerRaises(log_entry) == "message" \in log_entry.keys /\ ~log_entry.message_is_str

\* the patterns of the signatures that do not compile: re.search raises
\* re.error on them
BadPatterns(signatures) ==
  {q \in UNION {SeqRange(signatures[k].patterns) : k \in 1..Len(signatures)} : q = "("}

\* the number of entries of config['patterns'] found in the message
PatternsMatched(config, message) ==
  Cardinality({i \in 1..Len(config.patterns) :
                 config.patterns[i] \in SampleOf(message).found})

\* The confidences of the classifier are Python floats (IEEE doubles). A double
\* x that is 0 or has 1/32 <= x < 2 is written [units |-> u, rest |-> r] with
\*   x = u / Unit + r / (Unit * 2^60),
\* u the multiple of 1/Unit the arithmetic without rounding gives and r what
\* the roundings made of it; |r| stays far below 2^60, so the doubles are
\* ordered by units first and by rest among equal units.
RECURSIVE PowerMod(_, _)
\* 2^n modulo m
PowerMod(n, m) ==
  IF n <= 10 THEN 2^n % m ELSE (2^10 * PowerMod(n - 10, m)) % m

\* the double nearest to units / Unit + rest / (Unit * 2^60), a tie going to the
\* double with the even last place (the rounding of every float operation):
\*   place: the doubles from 2^(-place) up to 2^(1 - place) are the multiples
\*          of 2^(-52 - place), which is ulp / (Unit * 2^60);
\*   rem:   the value modulo two ulps; low: what it has above a double.
Nearest(units, rest) ==
  LET AtLeast(m) == m * units > Unit \/ (m * units = Unit /\ rest >= 0)
      place == CHOOSE i \in 0..5 : AtLeast(2^i) /\ (i = 0 \/ ~AtLeast(2^(i - 1)))
      ulp   == Unit * 2^(8 - place)
      rem   == (units * PowerMod(60, 2 * ulp) + rest + 128 * ulp) % (2 * ulp)
      low   == rem % ulp
  IN IF units = 0 /\ rest = 0 THEN [units |-> 0, rest |-> 0]
     ELSE IF 2 * low < ulp \/ (2 * low = ulp /\ rem < ulp)
          THEN [units |-> units, rest |-> rest - low]
          ELSE [units |-> units, rest |-> rest - low + ulp]

\* the float of a decimal literal and of a quotient of two ints that is
\* units / Unit
Float(units) == Nearest(units, 0)

\* x + y
FloatAdd(x, y) == Nearest(x.units + y.units, x.rest + y.rest)

\* x < y
FloatLess(x, y) == x.units < y.units \/ (x.units = y.units /\ x.rest < y.rest)

\* min(x, y)
FloatMin(x, y) == IF FloatLess(y, x) THEN y ELSE x

\* what the port adds to the confidence of the attack type
PortBoost(attack_type, dst_port) ==
  IF attack_type = "web_attack" /\ dst_port \in {80, 443, 8080} THEN Float(Unit \div 10)
  ELSE IF attack_type = "brute_force" /\ dst_port \in {22, 21, 3389}
       THEN Float(Unit \div 10)
  ELSE IF attack_type = "port_scan" /\ dst_port \in 1..1023 THEN Float(Unit \div 20)
  ELSE Float(0)

\* a variant of RuleConfidence without the two clamps
RuleConfidenceUnclamped(config, patterns_matched, dst_port) ==
  IF patterns_matched = 0 THEN Float(0)
  ELSE FloatAdd(FloatAdd(Float((patterns_matched * Unit) \div PatternTotal(config)),
                         Float((3 * Unit) \div 10)),
                PortBoost(config.attack_type, dst_port))

\* the confidence of one attack type in the rule stage:
\* min(0.9, patterns_matched / len(config['patterns']) + 0.3), then += 0.1 or
\* 0.05 on a port of the type, then min(1.0, confidence), each in floats
RuleConfidence(config, patterns_matched, dst_port) ==
  IF patterns_matched = 0 THEN Float(0)
  ELSE FloatMin(Float(Unit),
                FloatAdd(FloatMin(Float((9 * Unit) \div 10),
                                  FloatAdd(Float((patterns_matched * Unit)
                                                 \div PatternTotal(config)),
                                           Float((3 * Unit) \div 10))),
                         PortBoost(config.attack_type, dst_port)))

Classification(attack_type, confidence, method) ==
  [attack_type |-> attack_type, confidence |-> confidence, method |-> method]

RECURSIVE RuleLoopLastWins(_, _, _, _)
\* a variant of RuleLoop in which a later type takes over on equal confidence
RuleLoopLastWins(types, message, dst_port, best) ==
  IF types = <<>> THEN best
  ELSE LET confidence == RuleConfidence(Head(types),
                                        PatternsMatched(Head(types), message), dst_port)
       IN RuleLoopLastWins(Tail(types), message, dst_port,
                           IF ~FloatLess(confidence, best.confidence)
                           THEN Classification(Head(types).attack_type, confidence,
                                               "rule_based")
                           ELSE best)

RECURSIVE RuleLoop(_, _, _, _)
\* the loop over attack_signatures.items(): detected_type and max_confidence
\* after the (attack_type, config) items of types, starting from best
RuleLoop(types, message, dst_port, best) ==
  IF types = <<>> THEN best
  ELSE LET confidence == RuleConfidence(Head(types),
                                        PatternsMatched(Head(types), message), dst_port)
       IN RuleLoop(Tail(types), message, dst_port,
                   IF FloatLess(best.confidence, confidence)
                   THEN Classification(Head(types).attack_type, confidence, "rule_based")
                   ELSE best)

_rule_based_classification(log_entry, signatures) ==
  RuleLoop(signatures, Message(log_entry), DstPort(log_entry),
           Classification("normal", Float(0), "rule_based"))

\* [frequency, port_count, payload_size, time_variance, error_rate in 1/100]
_extract_ml_features(log_entry) ==
  <<1, 1, SampleOf(Message(log_entry)).length, 30,
    IF SampleOf(Message(log_entry)).has_error THEN 10 ELSE 5>>

\* What the trained model answers is not decided by this program: `oracle` is
\* either a failure of the scaler or the forest, or a predicted class with the
\* largest class probability.
MLClasses == {"brute_force", "port_scan", "web_attack", "ddos", "normal"}

MLConfidences == {Float(Unit \div 5), Float((55 * Unit) \div 100),
                  Float((7 * Unit) \div 10), Float((8 * Unit) \div 10), Float(Unit)}

Oracles ==
  {[ok |-> FALSE, attack_type |-> "", confidence |-> Float(0)]}
  \cup [ok : {TRUE}, attack_type : MLClasses, confidence : MLConfidences]

NoOracle == [ok |-> FALSE, attack_type |-> "none", confidence |-> Float(0)]

\* the result of a stage: raised tells that the stage raised instead of returning
Returned(result) == [raised |-> FALSE, result |-> result]

Threw == [raised |-> TRUE, result |-> Classification("", Float(0), "")]

\* a variant of _ml_classification without its try/except
MlClassificationUncaught(log_entry, oracle) ==
  IF oracle.ok
  THEN Returned(Classification(oracle.attack_type, oracle.confidence, "machine_learning"))
  ELSE Threw

_ml_classification(log_entry, oracle) ==
  IF oracle.ok
  THEN Returned(Classification(oracle.attack_type, oracle.confidence, "machine_learning"))
  ELSE Returned(Classification("unknown", Float(0), "ml_error"))

\* a variant of Prefer that also takes the statistical result on a tie
PreferOnTie(ml_result, rule_result) ==
  IF ~FloatLess(ml_result.confidence, rule_result.confidence) THEN ml_result
  ELSE rule_result

\* ml_result if ml_result['confidence'] > rule_result['confidence'] else rule_result
Prefer(ml_result, rule_result) ==
  IF FloatLess(rule_result.confidence, ml_result.confidence) THEN ml_result
  ELSE rule_result

\* the rule stage raises on a message that is no str and on a pattern that
\* does not compile
RuleStage(log_entry, signatures) ==
  IF LowerRaises(log_entry) \/ BadPatterns(signatures) # {} THEN Threw
  ELSE Returned(_rule_based_classification(log_entry, signatures))

\* whether classify_attack calls _ml_classification
ConsultsML(rule, trained) ==
  /\ ~rule.raised
  /\ ~FloatLess(Float((7 * Unit) \div 10), rule.result.confidence)
  /\ trained

\* the dict returned by the except clause of classify_attack
ErrorClassification == Classification("unknown", Float(0), "error")

\* classify_attack: the record of the call, with the dict it returns in `result`;
\* rule is what the rule stage does on the entry, RuleStage(log_entry, signatures)
classify_attack(log_entry, rule, oracle, trained, signatures) ==
  LET consulted == ConsultsML(rule, trained)
      ml == IF consulted THEN _ml_classification(log_entry, oracle) ELSE Threw
  IN [outcome |-> "returned",
      log_entry |-> log_entry,
      trained |-> trained,
      signatures |-> signatures,
      rule |-> rule,
      ml_consulted |-> consulted,
      oracle |-> IF consulted THEN oracle ELSE NoOracle,
      ml |-> ml,
      ml_features |-> IF consulted THEN _extract_ml_features(log_entry) ELSE <<>>,
      result |-> IF rule.raised THEN ErrorClassification
                 ELSE IF ~consulted THEN rule.result
                 ELSE IF ml.raised THEN ErrorClassification
                 ELSE Prefer(ml.result, rule.result)]

Ports == {22, 80, 8080}

LogEntries ==
  {LogEntry({"message", "dst_port"}, text, TRUE, port) : text \in Texts, port \in Ports}
  \cup {LogEntry({"message"}, text, TRUE, 0) : text \in Texts}
  \* no message
  \cup {LogEntry({"dst_port"}, "", TRUE, port) : port \in Ports}
  \cup {LogEntry({}, "", TRUE, 0)}
  \* a message that is no str
  \cup {LogEntry({"message", "dst_port"}, "", FALSE, 22)}

\* AttackClassifier.initialize: is_trained is True unless the training raised
Initialize ==
  /\ is_trained' \in BOOLEAN
  /\ UNCHANGED <<attack_signatures, classified, analyzerVars, passes, probe>>

\* RuleStage over the log entries, for each value of self.attack_signatures
RuleStageOf ==
  [signatures \in SignatureSets |->
     [log_entry \in LogEntries |-> RuleStage(log_entry, signatures)]]

ClassifyAttack ==
  \E log_entry \in LogEntries :
    LET rule == RuleStageOf[attack_signatures][log_entry]
    \* the trained model answers only when classify_attack reaches
    \* _ml_classification
    IN \E oracle \in IF ConsultsML(rule, is_trained) THEN Oracles ELSE {NoOracle} :
         /\ classified' = classify_attack(log_entry, rule, oracle, is_trained,
                                          attack_signatures)
         /\ UNCHANGED <<is_trained, attack_signatures, analyzerVars, passes, probe>>

\* the number of patterns the signatures hold
PatternCountOf(signatures) ==
  SumSeq([k \in 1..Len(signatures) |-> Len(signatures[k].patterns)])

\* update_signatures(new_patterns); classified keeps the calls made with the
\* signatures as they are
UpdateSignatures ==
  \E new \in NewPatterns :
    /\ PatternCountOf(attack_signatures) < PatternCountOf(BuiltinSignatures) + MaxUpdates
    /\ attack_signatures' = update_signatures(attack_signatures, new)
    /\ classified' = [outcome |-> "none"]
    /\ UNCHANGED <<is_trained, analyzerVars, passes, probe>>

\* load_model: the signatures and is_trained of the dict joblib.load returns,
\* which save_model wrote for some classifier; on a file that cannot be read
\* it falls back to initialize
LoadModel ==
  /\ \/ \E model_data \in [attack_signatures : SignatureSets, is_trained : BOOLEAN] :
          /\ attack_signatures' = model_data.attack_signatures
          /\ is_trained' = model_data.is_trained
     \/ /\ is_trained' \in BOOLEAN
        /\ attack_signatures' = attack_signatures
  /\ classified' = [outcome |-> "none"]
  /\ UNCHANGED <<analyzerVars, passes, probe>>

\* the state after AttackClassifier()
ClassifierInit ==
  /\ known_malicious_ips = {}
  /\ reputation_scores = NoUpdates
  /\ attack_patterns = NoUpdates
  /\ lists = NoLists
  /\ clock = 0
  /\ call = NoCall
  /\ report = NoReport
  /\ is_trained = FALSE
  /\ attack_signatures = BuiltinSignatures
  /\ classified = [outcome |-> "none"]
  /\ passes = [t \in Threads |-> Idle]
  /\ probe = NoProbe

ClassifierNext ==
  Initialize \/ ClassifyAttack \/ UpdateSignatures \/ LoadModel

ClassifierSpec == ClassifierInit /\ [][ClassifierNext]_vars

(***************************************************************************)
(* Passes of several threads on one analyzer.  analyze_logs takes no lock, *)
(* so between two accesses of self.attack_patterns or of                   *)
(* self.reputation_scores another thread may run: a pass is split at the   *)
(* statements of the loop of _update_models and of the loop of             *)
(* _get_reputation_updates.  The other stages read only the batch.         *)
(*                                                                         *)
(* A list of self.attack_patterns is an object: a thread that evaluated    *)
(* self.attack_patterns[attack_type] holds that list, also after another   *)
(* thread stored a new list under the type.  lists.stored names the list   *)
(* stored under each type; lists.dropped holds the entries of the lists    *)
(* that were replaced while a thread held them.                            *)
(***************************************************************************)
ThreadBatches ==
  {<<Plain("10.0.0.1", 5, 0)>>, <<Plain("10.0.0.1", MaxRun, 0)>>,
   <<Plain("192.168.1.100", 5, 0)>>,
   <<Plain("10.0.0.1", 5, 0), Plain("192.168.1.100", MaxRun, 30)>>,
   Sweep("10.0.0.1")}

InProgress(p) == p.pc \notin {"idle", "done"}

\* features['ip_frequency'] of the pass, a local of the thread
Table(p) == p.table

\* the (ip, frequency) the loop of the pass is at
Entry(p) == Table(p)[p.i]

\* the attacks of the pass, as _update_models receives them
PassAttacks(p) == Dated(p.attacks, clock)

\* the attack the loop of _update_models is at
AttackAt(p) == PassAttacks(p)[p.a]

\* the first statement of the pass after _update_models
LoopEntry(p) == IF Table(p) = <<>> THEN "return" ELSE "get"

\* whether a thread other than t holds the list
HeldByOthers(list, t) == \E u \in Threads \ {t} : passes[u].ref = list

\* whether the list is the one stored under the type
IsStored(list, attack_type) ==
  attack_type \in DOMAIN lists.stored /\ lists.stored[attack_type] = list

\* the entries of a list a thread holds
Entries(list, attack_type) ==
  IF IsStored(list, attack_type) THEN attack_patterns[attack_type]
  ELSE lists.dropped[list]

\* thread t lets go of the list it holds: a list that is neither stored nor
\* held by another thread is gone
Release(dropped, list, t) ==
  IF list \in DOMAIN dropped /\ ~HeldByOthers(list, t)
  THEN [k \in DOMAIN dropped \ {list} |-> dropped[k]]
  ELSE dropped

\* self.attack_patterns[attack_type] = <the list `list` with the entries>, by
\* thread t: the list stored before lives on while another thread holds it
Assign(attack_type, list, entries, t) ==
  /\ attack_patterns' = SetPattern(attack_patterns, attack_type, entries)
  /\ lists' =
       [stored |-> SetPattern(lists.stored, attack_type, list),
        dropped |-> IF /\ attack_type \in DOMAIN lists.stored
                       /\ HeldByOthers(lists.stored[attack_type], t)
                    THEN SetPattern(lists.dropped, lists.stored[attack_type],
                                    attack_patterns[attack_type])
                    ELSE lists.dropped]

\* a variant of AfterPenalty without the test for a known-malicious source
AfterPenaltySkips(ip, known) == "store"

\* the statement after the frequency penalty: the further penalty of a
\* known-malicious source, or the assignment to self.reputation_scores[ip]
AfterPenalty(ip, known) == IF ip \in known THEN "malicious" ELSE "store"

\* analyze_logs from its entry to the loop of _update_models
Begin(t) ==
  \E logs \in ThreadBatches :
    LET pipe == Pipe(logs)
        over == \E u \in Threads \ {t} : InProgress(passes[u])
        p    == [Idle EXCEPT !.logs = logs, !.i = 1, !.overlapped = over,
                             !.table = pipe.features.ip_frequency,
                             !.attacks = pipe.attacks]
    IN /\ passes[t].pc = "idle"
       /\ passes' =
            [u \in Threads |->
               IF u = t
               THEN IF pipe.attacks = <<>> THEN [p EXCEPT !.pc = LoopEntry(p)]
                    ELSE [p EXCEPT !.pc = "check", !.a = 1]
               ELSE IF InProgress(passes[u])
                    THEN [passes[u] EXCEPT !.overlapped = TRUE]
                    ELSE passes[u]]
       /\ UNCHANGED <<analyzerVars, classifierVars, probe>>

\* if attack_type not in self.attack_patterns
CheckPattern(t) ==
  /\ passes[t].pc = "check"
  /\ passes' = [passes EXCEPT
                  ![t].pc = IF AttackAt(passes[t]).type \in DOMAIN attack_patterns
                            THEN "fetch" ELSE "create"]
  /\ UNCHANGED <<analyzerVars, classifierVars, probe>>

\* self.attack_patterns[attack_type] = []
CreatePattern(t) ==
  LET p == passes[t]
  IN /\ p.pc = "create"
     /\ Assign(AttackAt(p).type, <<t, p.a, "new">>, <<>>, t)
     /\ passes' = [passes EXCEPT ![t].pc = "fetch"]
     /\ UNCHANGED <<known_malicious_ips, reputation_scores, clock, call, report,
                    classifierVars, probe>>

\* self.attack_patterns[attack_type], before the dict to append is built
FetchPattern(t) ==
  /\ passes[t].pc = "fetch"
  /\ passes' = [passes EXCEPT ![t].ref = lists.stored[AttackAt(passes[t]).type],
                              ![t].pc = "append"]
  /\ UNCHANGED <<analyzerVars, classifierVars, probe>>

\* .append({...}) on the list the thread holds
AppendPattern(t) ==
  LET p == passes[t]
      attack == AttackAt(p)
      longer == Append(Entries(p.ref, attack.type), attack.timestamp)
  IN /\ p.pc = "append"
     /\ IF IsStored(p.ref, attack.type)
        THEN /\ attack_patterns' = SetPattern(attack_patterns, attack.type, longer)
             /\ lists' = lists
        ELSE /\ attack_patterns' = attack_patterns
             /\ lists' = [lists EXCEPT
                            !.dropped = Release(SetPattern(lists.dropped, p.ref, longer),
                                                p.ref, t)]
     /\ passes' = [passes EXCEPT ![t].ref = <<>>, ![t].pc = "reread"]
     /\ UNCHANGED <<known_malicious_ips, reputation_scores, clock, call, report,
                    classifierVars, probe>>

\* self.attack_patterns[attack_type], the list the comprehension goes through
RereadPattern(t) ==
  /\ passes[t].pc = "reread"
  /\ passes' = [passes EXCEPT ![t].ref = lists.stored[AttackAt(passes[t]).type],
                              ![t].pc = "filter"]
  /\ UNCHANGED <<analyzerVars, classifierVars, probe>>

\* the comprehension reaches the end of the list it goes through
FilterPattern(t) ==
  LET p == passes[t]
  IN /\ p.pc = "filter"
     /\ passes' = [passes EXCEPT
                     ![t].kept = Recent(Entries(p.ref, AttackAt(p).type), clock),
                     ![t].ref = <<>>, ![t].pc = "assign"]
     /\ lists' = [lists EXCEPT !.dropped = Release(lists.dropped, p.ref, t)]
     /\ UNCHANGED <<known_malicious_ips, reputation_scores, attack_patterns, clock, call,
                    report, classifierVars, probe>>

\* self.attack_patterns[attack_type] = [...]; the next attack, or the stages
\* after _update_models
AssignPattern(t) ==
  LET p == passes[t]
  IN /\ p.pc = "assign"
     /\ Assign(AttackAt(p).type, <<t, p.a, "kept">>, p.kept, t)
     /\ passes' = [passes EXCEPT
                     ![t].kept = <<>>,
                     ![t].a = IF p.a < Len(PassAttacks(p)) THEN p.a + 1 ELSE p.a,
                     ![t].pc = IF p.a < Len(PassAttacks(p)) THEN "check" ELSE LoopEntry(p)]
     /\ UNCHANGED <<known_malicious_ips, reputation_scores, clock, call, report,
                    classifierVars, probe>>

\* current_score = self.reputation_scores.get(ip, 50)
GetScore(t) ==
  /\ passes[t].pc = "get"
  /\ passes' = [passes EXCEPT
                  ![t].current_score = CurrentScore(reputation_scores, Entry(passes[t])[1]),
                  ![t].pc = "penalty"]
  /\ UNCHANGED <<analyzerVars, classifierVars, probe>>

\* penalty = min(frequency * 2, 40); new_score = max(0, current_score - penalty)
ApplyPenalty(t) ==
  /\ passes[t].pc = "penalty"
  /\ passes' = [passes EXCEPT
                  ![t].new_score = Max(0, passes[t].current_score
                                          - Penalty(Entry(passes[t])[2])),
                  ![t].pc = AfterPenalty(Entry(passes[t])[1], known_malicious_ips)]
  /\ UNCHANGED <<analyzerVars, classifierVars, probe>>

\* new_score = max(0, new_score - 20)
ApplyMalicious(t) ==
  /\ passes[t].pc = "malicious"
  /\ passes' = [passes EXCEPT
                  ![t].new_score = Max(0, passes[t].new_score - MaliciousPenalty),
                  ![t].pc = "store"]
  /\ UNCHANGED <<analyzerVars, classifierVars, probe>>

\* self.reputation_scores[ip] = new_score; updates[ip] = {...}; next entry
StoreScore(t) ==
  LET p == passes[t]
      ip == Entry(p)[1]
  IN /\ p.pc = "store"
     /\ reputation_scores' = Store(reputation_scores, ip, p.new_score)
     /\ passes' = [passes EXCEPT
                     ![t].updates = Store(p.updates, ip,
                                          Update(p.current_score, p.new_score, Entry(p)[2])),
                     ![t].written = Append(p.written, ip),
                     ![t].i = p.i + 1,
                     ![t].pc = IF p.i < Len(Table(p)) THEN "get" ELSE "return"]
     /\ UNCHANGED <<known_malicious_ips, clock, attack_patterns, lists, call, report,
                    classifierVars, probe>>

\* the return of analyze_logs
Return(t) ==
  LET p == passes[t]
      pipe == Pipe(p.logs)
  IN /\ p.pc = "return"
     /\ report' = Report(FullKeys, pipe.attacks, pipe.anomalies, pipe.threats,
                         pipe.recommendations, pipe.statistics, p.updates)
     /\ call' = [logs |-> p.logs, fault |-> "none", outcome |-> "returned"]
     /\ passes' = [passes EXCEPT ![t].pc = "done"]
     /\ UNCHANGED <<known_malicious_ips, clock, reputation_scores, attack_patterns,
                    lists, classifierVars, probe>>

ConcurrentNext ==
  \E t \in Threads :
    \/ Begin(t)
    \/ CheckPattern(t)
    \/ CreatePattern(t)
    \/ FetchPattern(t)
    \/ AppendPattern(t)
    \/ RereadPattern(t)
    \/ FilterPattern(t)
    \/ AssignPattern(t)
    \/ GetScore(t)
    \/ ApplyPenalty(t)
    \/ ApplyMalicious(t)
    \/ StoreScore(t)
    \/ Return(t)

ConcurrentSpec == Init /\ [][ConcurrentNext]_vars

(***************************************************************************)
(* The threat analysis and the port prioritization called on their own:    *)
(* the input is drawn from a bounded set and the stage is applied to it.   *)
(***************************************************************************)
\* the longest list of attacks given to _analyze_threats
MaxAttacks == 4

\* the longest generated port-frequency table
MaxTable == 3

AttackSet ==
  {Attack(type, severity, ip, (6 * Unit) \div 10) :
     type \in {"brute_force", "port_scan"}, severity \in {"high", "medium"},
     ip \in {"10.0.0.1", "10.0.0.2"}}
  \cup {Attack(type, "medium", "int:7", (6 * Unit) \div 10) :
          type \in {"brute_force", "port_scan"}}

AttackLists == UNION {[1..n -> AttackSet] : n \in 0..MaxAttacks}

PortPool == {22, 445, 8080, 9000}

CountPool == {5, 6, 10, 11}

\* the tables of distinct ports
IsTable(t) == \A i, j \in 1..Len(t) : i # j => t[i][1] # t[j][1]

\* tables of more than ten ports: the ten critical ports and two others
LongTables ==
  {[i \in 1..12 |-> IF i <= 10 THEN <<critical_ports[i], 6>> ELSE <<8070 + i, 11>>],
   [i \in 1..12 |-> IF i <= 2 THEN <<8080 + i, 11>> ELSE <<critical_ports[i - 2], 6>>],
   [i \in 1..12 |-> <<8080 + i, IF i = 3 THEN 10 ELSE 11>>]}

PortTables ==
  {t \in UNION {[1..n -> PortPool \X CountPool] : n \in 0..MaxTable} : IsTable(t)}
  \cup LongTables

Probe(fn, done, attacks, port_frequency, raised, result) ==
  [fn |-> fn, done |-> done, attacks |-> attacks, port_frequency |-> port_frequency,
   raised |-> raised, result |-> result, logs |-> <<>>, level |-> ""]

\* a call of _calculate_threat_level on the features of a batch
LevelProbe(done, logs, level) ==
  [Probe("_calculate_threat_level", done, <<>>, <<>>, FALSE, <<>>)
     EXCEPT !.logs = logs, !.level = level]

\* a batch of n sources, the first m of them known-malicious, over the given
\* number of ports; the first source sends peak events, the next two 2 each
Crowd(n, m, ports, peak) ==
  [i \in 1..Max(n, ports) |->
     Run(Event(AllKeys, CrowdSource(Min(i, n), m), 8000 + Min(i, ports), 0, TRUE),
         IF i = 1 THEN peak ELSE IF i <= 3 THEN 2 ELSE 1)]

CrowdBatches ==
  {Crowd(n, m, ports, peak) :
     n \in {1, 5, 10, 11}, m \in 0..1, ports \in {1, 7, 10, 11},
     peak \in {3, 240, 250, 260}}
  \cup {Crowd(n, m, ports, peak) :
          n \in {5, 10, 11}, m \in 2..3, ports \in {1, 7, 10, 11},
          peak \in {3, 240, 250, 260}}

\* _calculate_threat_level on the features of a batch
CalculateThreatLevel ==
  /\ probe.fn = "_calculate_threat_level" /\ ~probe.done
  /\ probe' = LevelProbe(TRUE, probe.logs,
                         _calculate_threat_level(
                           _extract_features(probe.logs, known_malicious_ips),
                           known_malicious_ips))
  /\ UNCHANGED <<analyzerVars, classifierVars, passes>>

\* _analyze_threats on a list of attacks: it raises on a persistent source that
\* is no str
AnalyzeThreats ==
  /\ probe.fn = "_analyze_threats" /\ ~probe.done
  /\ probe' = Probe(probe.fn, TRUE, probe.attacks, <<>>, ThreatFault(probe.attacks),
                    IF ThreatFault(probe.attacks) THEN <<>>
                    ELSE _analyze_threats(probe.attacks, <<>>))
  /\ UNCHANGED <<analyzerVars, classifierVars, passes>>

\* _identify_high_value_ports on features that hold a port-frequency table
IdentifyHighValuePorts ==
  /\ probe.fn = "_identify_high_value_ports" /\ ~probe.done
  /\ probe' = Probe(probe.fn, TRUE, <<>>, probe.port_frequency, FALSE,
                    _identify_high_value_ports([port_frequency |-> probe.port_frequency]))
  /\ UNCHANGED <<analyzerVars, classifierVars, passes>>

\* AnomalyDetector.detect on a batch
Detect ==
  /\ probe.fn = "detect" /\ ~probe.done
  /\ probe' = [probe EXCEPT !.done = TRUE,
                            !.raised = detect(probe.logs).raises,
                            !.result = detect(probe.logs).anomalies]
  /\ UNCHANGED <<analyzerVars, classifierVars, passes>>

\* the lists of attacks _update_models is called with at the hour: those of a
\* pass, attacks of an earlier hour, and attacks that lack a field
UpdateLists(now) ==
  LET brute == Attack("brute_force", "medium", "10.0.0.1", (3 * Unit) \div 10)
      scan  == Attack("port_scan", "medium", "10.0.0.1", (3 * Unit) \div 10)
      Without(attack, field) == [f \in DOMAIN attack \ {field} |-> attack[f]]
  IN {<<>>, Dated(<<brute>>, now), Dated(<<brute, scan>>, now), Dated(<<brute>>, 0),
      <<brute>>,
      Dated(<<brute>>, now) \o <<scan>>,
      <<scan>> \o Dated(<<brute>>, now),
      <<Without(brute, "type")>> \o Dated(<<brute>>, now),
      <<Without(Dated(<<scan>>, now)[1], "confidence")>>}

\* _update_models on a list of attacks, at some hour
UpdateModels ==
  /\ probe.fn = "_update_models" /\ ~probe.done
  /\ attack_patterns' = _update_models(attack_patterns, probe.attacks, clock)
  /\ probe' = Probe(probe.fn, TRUE, probe.attacks, <<>>, FALSE, <<>>)
  /\ UNCHANGED <<known_malicious_ips, reputation_scores, lists, clock, call, report,
                 classifierVars, passes>>

StageInit ==
  /\ reputation_scores = NoUpdates
  /\ lists = NoLists
  /\ call = NoCall
  /\ report = NoReport
  /\ is_trained = TRUE
  /\ attack_signatures = BuiltinSignatures
  /\ classified = [outcome |-> "none"]
  /\ passes = [t \in Threads |-> Idle]
  \* the stages that read no field of the analyzer
  /\ \/ /\ known_malicious_ips = _initialize_models(TRUE)
        /\ clock = 0
        /\ attack_patterns = NoUpdates
        /\ probe \in {Probe("_analyze_threats", FALSE, a, <<>>, FALSE, <<>>) :
                        a \in AttackLists}
                     \cup {Probe("_identify_high_value_ports", FALSE, <<>>, t, FALSE, <<>>) :
                             t \in PortTables}
     \* the stages that go through a batch
     \/ /\ known_malicious_ips \in IntelStates
        /\ clock = 0
        /\ attack_patterns = NoUpdates
        /\ probe \in {LevelProbe(FALSE, logs, "") : logs \in CrowdBatches}
                     \cup {[Probe("detect", FALSE, <<>>, <<>>, FALSE, <<>>) EXCEPT !.logs = logs] :
                             logs \in Batches}
     \* _update_models at some hour, on a history earlier passes left
     \/ /\ known_malicious_ips \in IntelStates
        /\ clock \in {h \in 0..MaxHours : h % TickHours = 0}
        /\ attack_patterns \in
             {h \in {NoUpdates, [brute_force |-> <<0>>],
                      [brute_force |-> <<0, TickHours>>, port_scan |-> <<TickHours>>]} :
                \A k \in DOMAIN h : \A i \in 1..Len(h[k]) : h[k][i] <= clock}
        /\ probe \in {Probe("_update_models", FALSE, a, <<>>, FALSE, <<>>) :
                        a \in UpdateLists(clock)}

StageNext ==
  AnalyzeThreats \/ IdentifyHighValuePorts \/ CalculateThreatLevel \/ Detect
  \/ UpdateModels

StageSpec == StageInit /\ [][StageNext]_vars

(***************************************************************************)
(* Properties of the analyzer, checked under Spec and AgingSpec.           *)
(***************************************************************************)
Updates(r) == r.reputation_updates

Completed(c, r) ==
  c.outcome = "returned" /\ c.logs # <<>> /\ "reputation_updates" \in r.keys

\* a step that is a call of analyze_logs: in the other steps only time passes
CallStep == clock' = clock

\* C1: after any sequence of passes every stored reputation score, and every
\* old_score and new_score reported in reputation_updates, lies in [0,100].
C1_ScoresInRange ==
  /\ \A ip \in DOMAIN reputation_scores : reputation_scores[ip] \in 0..100
  /\ \A ip \in DOMAIN Updates(report) :
       /\ Updates(report)[ip].old_score \in 0..100
       /\ Updates(report)[ip].new_score \in 0..100

\* a pass whose penalty exceeded the score it found: the floor 0 was applied
C1_FloorReached ==
  \E ip \in DOMAIN Updates(report) :
    /\ Updates(report)[ip].old_score > 0
    /\ Updates(report)[ip].old_score < 2 * Updates(report)[ip].frequency
    /\ Updates(report)[ip].new_score = 0
    /\ reputation_scores[ip] = 0

\* C2: in a completed pass, for each source of the batch's source-frequency
\* table with frequency f and previous score old (50 if never seen), the stored
\* score becomes max(0, old - min(2f, 40)), lowered by a further 20 (not below 0)
\* for a known-malicious source, and the reported change is new_score - old_score.
C2_ScoreFormula ==
  [][(CallStep /\ Completed(call', report')) =>
       LET table == Pipe(call'.logs).features.ip_frequency
       IN /\ DOMAIN Updates(report') = {table[i][1] : i \in 1..Len(table)}
          /\ \A i \in 1..Len(table) :
               LET ip   == table[i][1]
                   f    == table[i][2]
                   old  == IF ip \in DOMAIN reputation_scores
                           THEN reputation_scores[ip] ELSE 50
                   base == Max(0, old - Min(2 * f, 40))
                   new  == IF ip \in known_malicious_ips
                           THEN Max(0, base - 20) ELSE base
                   u    == Updates(report')[ip]
               IN /\ reputation_scores'[ip] = new
                  /\ u.old_score = old
                  /\ u.new_score = new
                  /\ u.change = new - old]_vars

\* a known-malicious source lost the frequency penalty and the further 20, and
\* a source with 20 events or more lost the capped 40
C2_BothPenalties ==
  /\ \E ip \in DOMAIN Updates(report) \cap known_malicious_ips :
       /\ Updates(report)[ip].frequency = 5
       /\ Updates(report)[ip].change = -30
  /\ \E ip \in DOMAIN Updates(report) \ known_malicious_ips :
       /\ Updates(report)[ip].frequency > 20
       /\ Updates(report)[ip].change = -40

\* C3: the reputation state carries over between passes and no pass resets it:
\* a pass reads as old_score the score stored before it, stores its new_score,
\* leaves every other source's score alone, never raises a score, and the same
\* batch analysed twice running lowers each score again by the same amount, or
\* to the floor 0.
C3_CarryOver ==
  [][CallStep =>
     /\ \A ip \in DOMAIN reputation_scores :
          /\ ip \in DOMAIN reputation_scores'
          /\ reputation_scores'[ip] <= reputation_scores[ip]
          /\ ip \notin DOMAIN Updates(report') =>
               reputation_scores'[ip] = reputation_scores[ip]
     /\ \A ip \in DOMAIN reputation_scores' \ DOMAIN reputation_scores :
          /\ ip \in DOMAIN Updates(report')
          /\ reputation_scores'[ip] <= 50
     /\ \A ip \in DOMAIN Updates(report') :
          /\ Updates(report')[ip].old_score =
               (IF ip \in DOMAIN reputation_scores THEN reputation_scores[ip] ELSE 50)
          /\ reputation_scores'[ip] = Updates(report')[ip].new_score
     /\ (Completed(call, report) /\ Completed(call', report') /\ call'.logs = call.logs) =>
          \A ip \in DOMAIN Updates(report') :
            /\ ip \in DOMAIN Updates(report)
            /\ Updates(report')[ip].old_score = Updates(report)[ip].new_score
            /\ Updates(report')[ip].new_score =
                 Max(0, Updates(report)[ip].new_score
                        - (Updates(report)[ip].old_score - Updates(report)[ip].new_score))
    ]_vars

\* a pass found a score an earlier pass had lowered and lowered it again
C3_DecayedTwice ==
  \E ip \in DOMAIN Updates(report) :
    /\ Updates(report)[ip].old_score < 50
    /\ Updates(report)[ip].new_score < Updates(report)[ip].old_score
    /\ Updates(report)[ip].new_score > 0

IsErrorReport(r) ==
  /\ "error" \in r.keys
  /\ r.attacks = <<>> /\ r.anomalies = <<>> /\ r.threats = <<>>
  /\ r.recommendations = <<>>
  /\ "statistics" \notin r.keys /\ "reputation_updates" \notin r.keys

\* the pass of call c met an exception in one of its stages
Faulted(c) ==
  /\ c.logs # <<>>
  /\ \/ c.fault \in {"extract", "classify", "anomalies", "threats", "recommendations",
                     "statistics", "reputation"}
     \/ \E i \in 1..Len(c.logs) :
          "timestamp" \in c.logs[i].ev.keys /\ ~c.logs[i].ev.ts_ok
     \/ \E ip \in NonStrSources : \E k \in 1..Len(Pipe(c.logs).attacks) :
          \E m \in 1..Len(Pipe(c.logs).attacks) :
            /\ k # m
            /\ Pipe(c.logs).attacks[k].source_ip = ip
            /\ Pipe(c.logs).attacks[m].source_ip = ip

\* C4: analyze_logs never raises: a fault in any stage of the pass gives a report
\* with an error field and empty attacks, anomalies, threats and
\* recommendations, and a caller sees no other outcome of a failure.
C4_FaultsBecomeErrorReports ==
  /\ call.outcome # "raised"
  /\ Faulted(call) => IsErrorReport(report)
  /\ "error" \in report.keys => IsErrorReport(report) /\ Faulted(call)
  /\ call.outcome = "returned" => (report.keys = FullKeys \/ IsErrorReport(report))

\* the last stage of a pass raised and the caller received the error report
C4_LastStageFault ==
  /\ call.outcome = "returned"
  /\ call.fault = "reputation"
  /\ IsErrorReport(report)

\* C5: a pass on a non-empty batch whose events have absent or malformed fields
\* completes and returns a report without an error field.
C5_BadFieldsNeverFail ==
  (call.outcome = "returned" /\ call.logs # <<>> /\ call.fault = "none")
    => "error" \notin report.keys

\* C6: in every state of the analyzer, analyze_logs on an empty batch returns the
\* canonical empty report (every list and reputation_updates empty, intensity
\* "None", threat level "Low", no error field) and leaves the reputation scores
\* and the pattern history unchanged.
C6_EmptyBatch ==
  [][(CallStep /\ call'.logs = <<>> /\ call'.outcome = "returned") =>
       /\ report'.attacks = <<>> /\ report'.anomalies = <<>>
       /\ report'.threats = <<>> /\ report'.recommendations = <<>>
       /\ DOMAIN Updates(report') = {}
       /\ "reputation_updates" \in report'.keys
       /\ report'.statistics.attack_intensity = "None"
       /\ report'.statistics.threat_level = "Low"
       /\ "error" \notin report'.keys
       /\ reputation_scores' = reputation_scores
       /\ attack_patterns' = attack_patterns]_vars

\* an empty batch was analysed after passes that lowered a score and stored
\* attack patterns, more than a day after one of them was stored
C6_EmptyAfterPasses ==
  /\ call.logs = <<>> /\ call.outcome = "returned"
  /\ report.statistics.attack_intensity = "None"
  /\ \E ip \in DOMAIN reputation_scores : reputation_scores[ip] < 50
  /\ \E k \in DOMAIN attack_patterns :
       \E i \in 1..Len(attack_patterns[k]) : attack_patterns[k][i] + KeepHours <= clock

\* C16: the recommendations of a pass are at most three, in the order adapt,
\* block_ips, enhance_monitoring, each present exactly when its trigger holds:
\* adapt iff there is a threat (count = min(5, number of prioritized ports)),
\* block_ips iff some source frequency is above 20 (ips: exactly those sources),
\* enhance_monitoring iff more than 10 distinct ports were targeted (focus
\* ports: the first 5 of the port-frequency table).
C16_Recommendations ==
  Completed(call, report) =>
    LET f    == Pipe(call.logs).features
        recs == report.recommendations
        at(action) == {i \in 1..Len(recs) : recs[i].action = action}
        busy == {i \in 1..Len(f.ip_frequency) : f.ip_frequency[i][2] > 20}
    IN /\ Len(recs) <= 3
       /\ \A i \in 1..Len(recs) :
            recs[i].action \in {"spawn_honeypots", "block_ips", "enhance_monitoring"}
       /\ \A action \in {"spawn_honeypots", "block_ips", "enhance_monitoring"} :
            Cardinality(at(action)) <= 1
       /\ \A i \in at("spawn_honeypots") : i = 1 /\ recs[i].type = "adapt"
       /\ \A i \in at("enhance_monitoring") : i = Len(recs)
       /\ (at("spawn_honeypots") # {}) <=> (report.threats # <<>>)
       /\ (at("block_ips") # {}) <=> (busy # {})
       /\ (at("enhance_monitoring") # {}) <=> (f.unique_ports > 10)
       /\ \A i \in at("spawn_honeypots") :
            /\ recs[i].count = Min(5, Len(recs[i].ports))
            /\ recs[i].ports = _identify_high_value_ports(f)
       /\ \A i \in at("block_ips") :
            /\ {recs[i].ips[k] : k \in 1..Len(recs[i].ips)} =
                 {f.ip_frequency[k][1] : k \in busy}
            /\ Len(recs[i].ips) = Cardinality(busy)
       /\ \A i \in at("enhance_monitoring") :
            /\ Len(recs[i].ports) = Min(5, Len(f.port_frequency))
            /\ \A k \in 1..Len(recs[i].ports) : recs[i].ports[k] = f.port_frequency[k][1]

\* a pass made all three recommendations: honeypots on the one prioritized
\* port, the source blocked, and five focus ports out of eleven targeted
C16_AllThree ==
  /\ Completed(call, report)
  /\ Len(report.recommendations) = 3
  /\ report.recommendations[1].count = 1
  /\ report.recommendations[2].ips = <<"10.0.0.1">>
  /\ Len(report.recommendations[3].ports) = 5
  /\ report.statistics.ports_targeted = 11

\* the seconds between the earliest and the latest timestamp of the batch, 0
\* when no event has a timestamp
Span(logs) ==
  LET stamps == {logs[i].ev.timestamp : i \in {j \in 1..Len(logs) :
                                                  "timestamp" \in logs[j].ev.keys}}
  IN IF stamps = {} THEN 0
     ELSE (CHOOSE x \in stamps : \A y \in stamps : y <= x)
          - (CHOOSE x \in stamps : \A y \in stamps : x <= y)

\* the bucket of n events in secs seconds, secs > 0
Bucket(n, secs) ==
  IF n * 60 > 50 * secs THEN "Critical"
  ELSE IF n * 60 > 20 * secs THEN "High"
  ELSE IF n * 60 > 5 * secs THEN "Medium"
  ELSE "Low"

\* C21 as claimed: for every non-empty batch, statistics.attack_intensity is
\* the bucket of the events per minute (Critical above 50, High above 20,
\* Medium above 5, else Low), so always one of these four values.
C21_IntensityAlwaysBucket ==
  Completed(call, report) =>
    /\ report.statistics.attack_intensity \in {"Critical", "High", "Medium", "Low"}
    /\ Span(call.logs) > 0 =>
         report.statistics.attack_intensity = Bucket(report.statistics.total_events,
                                                     Span(call.logs))

\* a pass on 115 events within 138 seconds, which is 50 events per minute and
\* no more, reported Critical
C21_CriticalAtFifty ==
  /\ Completed(call, report)
  /\ report.statistics.total_events = 115
  /\ Span(call.logs) = 138
  /\ Bucket(115, 138) = "High"
  /\ report.statistics.attack_intensity = "Critical"

\* the number of events of the source in the batch
EventsOf(logs, ip) ==
  SumSeq([i \in 1..Len(logs) |->
            IF "src_ip" \in logs[i].ev.keys /\ logs[i].ev.src_ip = ip
            THEN logs[i].n ELSE 0])

\* the sources of the batch
SourcesOf(logs) ==
  {logs[i].ev.src_ip : i \in {j \in 1..Len(logs) : "src_ip" \in logs[j].ev.keys}}

\* the ten most frequent sources of the batch: those with fewer than ten
\* sources ahead of them (more events, or as many and met earlier)
MostFrequent(logs) ==
  LET met(ip) == CHOOSE i \in 1..Len(logs) :
                   /\ "src_ip" \in logs[i].ev.keys /\ logs[i].ev.src_ip = ip
                   /\ \A j \in 1..(i - 1) :
                        ~("src_ip" \in logs[j].ev.keys /\ logs[j].ev.src_ip = ip)
      ahead(ip) == {o \in SourcesOf(logs) :
                      \/ EventsOf(logs, o) > EventsOf(logs, ip)
                      \/ EventsOf(logs, o) = EventsOf(logs, ip) /\ met(o) < met(ip)}
  IN {ip \in SourcesOf(logs) : Cardinality(ahead(ip)) < 10}

\* MostFrequent over the batches
MostFrequentOf == [logs \in Batches |-> MostFrequent(logs)]

\* C23: a pass changes the stored score only of the sources of the batch's
\* source-frequency table (its ten most frequent sources at most) and reports
\* exactly those in reputation_updates; the score of every other source stays,
\* also of a source with events in the batch that is not among the ten.
C23_OnlyTableSources ==
  [][/\ \A ip \in DOMAIN reputation_scores : ip \in DOMAIN reputation_scores'
     /\ \A ip \in DOMAIN reputation_scores' :
          (ip \notin DOMAIN reputation_scores
             \/ reputation_scores'[ip] # reputation_scores[ip]) =>
            ip \in MostFrequentOf[call'.logs]
     /\ Completed(call', report') =>
          /\ DOMAIN Updates(report') = MostFrequentOf[call'.logs]
          /\ Cardinality(DOMAIN Updates(report')) <= 10
          /\ \A ip \in DOMAIN Updates(report') :
               Updates(report')[ip].frequency = EventsOf(call'.logs, ip)
    ]_vars

\* a pass on eleven sources updated ten of them and left alone the score an
\* earlier pass had stored for the eleventh
C23_EleventhUntouched ==
  /\ Completed(call, report)
  /\ Cardinality(SourcesOf(call.logs)) = 11
  /\ Cardinality(DOMAIN Updates(report)) = 10
  /\ EventsOf(call.logs, "10.0.0.1") > 0
  /\ "10.0.0.1" \notin DOMAIN Updates(report)
  /\ "10.0.0.1" \in DOMAIN reputation_scores
  /\ reputation_scores["10.0.0.1"] < 50

\* C24: when analyze_logs returns an error report the stored reputation scores
\* are those held before the call: the reputation update is the last step of a
\* pass, after every stage that can fault, so a failed pass applies no penalty
\* and every pass that changes a score returns a full report.
C24_FailedPassKeepsScores ==
  [][/\ (call'.outcome = "returned" /\ IsErrorReport(report')) =>
          reputation_scores' = reputation_scores
     /\ reputation_scores' # reputation_scores =>
          /\ Completed(call', report')
          /\ ~IsErrorReport(report')
          /\ call'.fault \in {"none", "update_models"}
    ]_vars

\* a pass failed in its statistics, after it had stored its attacks in the
\* pattern history: no source of its batch has a stored score
C24_LateFaultNoPenalty ==
  /\ IsErrorReport(report)
  /\ call.fault = "statistics"
  /\ PatternCount(attack_patterns) = 2
  /\ SourcesOf(call.logs) # {}
  /\ \A ip \in SourcesOf(call.logs) : ip \notin DOMAIN reputation_scores

(***************************************************************************)
(* Properties of the classifier, checked under ClassifierSpec.             *)
(***************************************************************************)
Called == classified.outcome # "none"

\* C7: classify_attack consults the statistical stage only when the rule
\* confidence is at most 0.7 and the model is trained; a rule result above 0.7
\* is returned unchanged; otherwise the statistical result is returned only if
\* its confidence is strictly greater, and the rule result on a tie or when the
\* model is not trained.
C7_StageChoice ==
  (Called /\ ~classified.rule.raised) =>
    LET rule == classified.rule.result
        seven == Float((7 * Unit) \div 10)
    IN /\ classified.ml_consulted <=>
            (~FloatLess(seven, rule.confidence) /\ classified.trained)
       /\ FloatLess(seven, rule.confidence) => classified.result = rule
       /\ ~classified.trained => classified.result = rule
       /\ (classified.ml_consulted /\ ~classified.ml.raised) =>
            /\ FloatLess(rule.confidence, classified.ml.result.confidence)
                 => classified.result = classified.ml.result
            /\ ~FloatLess(rule.confidence, classified.ml.result.confidence)
                 => classified.result = rule

\* the two stages named different attack types with the same confidence, and
\* the rule result was returned
C7_TieKeepsRule ==
  /\ Called /\ classified.ml_consulted
  /\ classified.oracle.ok
  /\ classified.ml.result.confidence = classified.rule.result.confidence
  /\ classified.ml.result.attack_type # classified.rule.result.attack_type
  /\ classified.result.method = "rule_based"

\* C8: the confidence classify_attack returns is in [0,1], for an empty, absent
\* or malformed message, any port, any number of matched patterns, and from the
\* rule stage, the statistical stage or the error path.
C8_ConfidenceInRange ==
  Called =>
    /\ classified.outcome = "returned"
    /\ ~FloatLess(classified.result.confidence, Float(0))
    /\ ~FloatLess(Float(Unit), classified.result.confidence)
    /\ classified.result.method \in {"rule_based", "machine_learning", "ml_error", "error"}

\* every pattern of an attack type matched on one of its expected ports: the
\* rule stage returned the confidence 1
C8_FullConfidence ==
  /\ Called
  /\ classified.result.method = "rule_based"
  /\ classified.result.confidence = Float(Unit)
  /\ \E k \in 1..Len(classified.signatures) :
       /\ classified.signatures[k].attack_type = classified.result.attack_type
       /\ PatternTotal(classified.signatures[k]) = 4
       /\ PatternsMatched(classified.signatures[k], Message(classified.log_entry)) = 4

\* C9: classify_attack propagates no fault: a fault of the rule stage gives
\* {attack_type: unknown, confidence: 0.0, method: error}, and a failure of the
\* statistical stage is caught there as an unknown result of confidence 0, so
\* that classify_attack returns the rule result.
C9_FaultsContained ==
  Called =>
    /\ classified.outcome = "returned"
    /\ classified.rule.raised =>
         /\ classified.result.attack_type = "unknown"
         /\ classified.result.confidence = Float(0)
         /\ classified.result.method = "error"
    /\ (classified.log_entry.message_is_str = FALSE
          /\ "message" \in classified.log_entry.keys) =>
         /\ classified.result.attack_type = "unknown"
         /\ classified.result.confidence = Float(0)
         /\ classified.result.method = "error"
    /\ (classified.ml_consulted /\ ~classified.oracle.ok) =>
         /\ ~classified.ml.raised
         /\ classified.ml.result.attack_type = "unknown"
         /\ classified.ml.result.confidence = Float(0)
         /\ classified.result = classified.rule.result
         /\ classified.result.method = "rule_based"

\* the statistical stage failed on an entry in which the rule stage matched
\* nothing, and the rule result came back
C9_MlFailureKeepsRule ==
  /\ Called /\ classified.ml_consulted /\ ~classified.oracle.ok
  /\ classified.rule.result.confidence = Float(0)
  /\ classified.result.attack_type = "normal"

\* C10 as claimed: for an entry without a message, classify_attack returns
\* attack_type normal or unknown and confidence 0, trained or not.
C10_NoMessageZeroConfidence ==
  (Called /\ "message" \notin classified.log_entry.keys) =>
    /\ classified.outcome = "returned"
    /\ classified.result.attack_type \in {"normal", "unknown"}
    /\ classified.result.confidence = Float(0)

\* every pattern of the signatures compiles and none finds anything in the
\* empty string
FindNothingInEmpty(signatures) ==
  /\ BadPatterns(signatures) = {}
  /\ \A k \in 1..Len(signatures) : PatternsMatched(signatures[k], "") = 0

\* C10 as amended: for an entry without a message, and signatures whose
\* patterns all compile and find nothing in the empty string (the built-in ones
\* do), classify_attack returns without raising and the rule stage gives normal
\* with confidence 0; this is the result when the model is not trained or the
\* statistical stage fails, and with a trained model the statistical result is
\* returned whenever its confidence is above 0.
C10_NoMessageAmended ==
  (/\ Called /\ "message" \notin classified.log_entry.keys
   /\ FindNothingInEmpty(classified.signatures)) =>
    /\ classified.outcome = "returned"
    /\ ~classified.rule.raised
    /\ classified.rule.result.attack_type = "normal"
    /\ classified.rule.result.confidence = Float(0)
    /\ (~classified.trained \/ ~classified.oracle.ok) =>
         /\ classified.result.attack_type = "normal"
         /\ classified.result.confidence = Float(0)
         /\ classified.result.method = "rule_based"
    /\ (/\ classified.trained /\ classified.oracle.ok
        /\ FloatLess(Float(0), classified.oracle.confidence)) =>
         /\ classified.result.method = "machine_learning"
         /\ classified.result.attack_type = classified.oracle.attack_type
         /\ classified.result.confidence = classified.oracle.confidence

\* a trained classifier answered an entry without a message with the
\* statistical result
C10_NoMessageTrained ==
  /\ Called /\ "message" \notin classified.log_entry.keys
  /\ classified.trained
  /\ classified.result.method = "machine_learning"
  /\ classified.result.attack_type = "brute_force"
  /\ FloatLess(Float(0), classified.result.confidence)

\* the confidence the claim gives an attack kind, in 1/Unit: matched of its
\* total patterns found, on the destination port
KindConfidence(kind, matched, total, port) ==
  LET boost == IF kind = "web_attack" /\ port \in {80, 443, 8080} THEN Unit \div 10
               ELSE IF kind = "brute_force" /\ port \in {22, 21, 3389} THEN Unit \div 10
               ELSE IF kind = "port_scan" /\ port >= 1 /\ port <= 1023 THEN Unit \div 20
               ELSE 0
      base  == (matched * Unit) \div total + (3 * Unit) \div 10
      capped == IF base > (9 * Unit) \div 10 THEN (9 * Unit) \div 10 ELSE base
  IN IF matched = 0 THEN 0
     ELSE IF capped + boost > Unit THEN Unit ELSE capped + boost

\* C17 as claimed: the rule stage gives each attack kind with a matching
\* pattern the confidence min(1.0, min(0.9, matched/total + 0.3) + boost),
\* reports the kind of the largest confidence, on a tie the kind that comes
\* first in the order brute_force, port_scan, web_attack, ddos, malware, and
\* reports normal with confidence 0 when no pattern of any kind matches. The
\* confidence reported is taken to be the claimed one when it is that value up
\* to the rounding of the float operations.
C17_RuleStage ==
  (Called /\ ~classified.rule.raised) =>
    LET entry == classified.log_entry
        port  == IF "dst_port" \in entry.keys THEN entry.dst_port ELSE 0
        text  == IF "message" \in entry.keys THEN entry.message ELSE ""
        kinds == classified.signatures
        n     == Len(kinds)
        found == [k \in 1..n |->
                    Cardinality({i \in 1..Len(kinds[k].patterns) :
                                   kinds[k].patterns[i] \in SampleOf(text).found})]
        conf  == [k \in 1..n |->
                    KindConfidence(kinds[k].attack_type, found[k],
                                   Len(kinds[k].patterns), port)]
        rule  == classified.rule.result
    IN /\ [k \in 1..5 |-> kinds[k].attack_type]
            = <<"brute_force", "port_scan", "web_attack", "ddos", "malware">>
       /\ rule.method = "rule_based"
       /\ (\A k \in 1..n : found[k] = 0) =>
            rule.attack_type = "normal" /\ rule.confidence = Float(0)
       /\ (\E k \in 1..n : found[k] > 0) =>
            \E k \in 1..n :
              /\ rule.attack_type = kinds[k].attack_type
              /\ rule.confidence.units = conf[k]
              /\ \A j \in 1..n : conf[j] <= conf[k]
              /\ \A j \in 1..(k - 1) : conf[j] < conf[k]

\* the claimed confidences of two kinds are equal and the largest, and the
\* rule stage reported the later kind: brute_force has five patterns after
\* update_signatures, one of them is found on port 22 (0.2 + 0.3 + 0.1 = 0.6),
\* and one of the four of port_scan (0.25 + 0.3 + 0.05 = 0.6000000000000001)
C17_LaterKindTakesOver ==
  /\ Called /\ ~classified.rule.raised
  /\ DstPort(classified.log_entry) = 22
  /\ classified.signatures[1].attack_type = "brute_force"
  /\ PatternTotal(classified.signatures[1]) = 5
  /\ PatternsMatched(classified.signatures[1], Message(classified.log_entry)) = 1
  /\ classified.signatures[2].attack_type = "port_scan"
  /\ PatternsMatched(classified.signatures[2], Message(classified.log_entry)) = 1
  /\ KindConfidence("brute_force", 1, 5, 22) = KindConfidence("port_scan", 1, 4, 22)
  /\ classified.rule.result.attack_type = "port_scan"
  /\ FloatLess(Float((6 * Unit) \div 10), classified.rule.result.confidence)

\* two kinds reached the same, largest confidence and the earlier one was
\* reported
C17_TieEarlierKind ==
  /\ Called /\ ~classified.rule.raised
  /\ classified.rule.result.attack_type = "port_scan"
  /\ classified.rule.result.confidence = Float((55 * Unit) \div 100)
  /\ classified.signatures[4].attack_type = "ddos"
  /\ PatternsMatched(classified.signatures[4], Message(classified.log_entry)) = 1
  /\ DstPort(classified.log_entry) = 8080

(***************************************************************************)
(* The scenarios of the specification, against the rule stage (under       *)
(* ClassifierSpec) and against the reports of analyze_logs (under Spec).   *)
(***************************************************************************)
\* C11 as claimed: an event of the batch of scenario A (message "Failed password
\* for root", port 22) is classified brute_force by the rule stage with a
\* confidence of at least 0.7.
C11_ScenarioABruteForce ==
  (/\ Called
   /\ {"message", "dst_port"} \subseteq classified.log_entry.keys
   /\ classified.log_entry.message_is_str
   /\ classified.log_entry.message = "Failed password for root"
   /\ classified.log_entry.dst_port = 22) =>
    /\ ~classified.rule.raised
    /\ classified.rule.result.attack_type = "brute_force"
    /\ ~FloatLess(classified.rule.result.confidence, Float((7 * Unit) \div 10))

\* the sources with more than 50 events in the batch
SpikeSources(logs) ==
  IF HasColumn(logs, "src_ip")
  THEN {ip \in {Column(logs, "src_ip")[i].v : i \in 1..Len(Column(logs, "src_ip"))} :
          CountOf(Column(logs, "src_ip"), ip) > 50}
  ELSE {}

\* C12 as claimed: the anomalies of the report of a pass hold, for every source
\* with more than 50 events, the frequency-spike anomaly of that source
\* (severity high above 100 events, else medium; confidence min(0.95, count/150)),
\* and no frequency-spike anomaly for another source.
C12_FrequencySpikeReported ==
  Completed(call, report) =>
    /\ \A i \in 1..Len(FrequencySpikes(call.logs)) :
         \E j \in 1..Len(report.anomalies) :
           report.anomalies[j] = FrequencySpikes(call.logs)[i]
    /\ \A j \in 1..Len(report.anomalies) :
         report.anomalies[j].type = "IP Frequency Spike" =>
           report.anomalies[j].ip \in SpikeSources(call.logs)

\* C13 as claimed: for a batch of 20 events of a single source over 8 distinct
\* ports, every attack the report lists for that source is a port_scan.
C13_ScenarioCPortScanOnly ==
  (/\ Completed(call, report)
   /\ TotalEvents(call.logs) = 20
   /\ \A i \in 1..Len(call.logs) : call.logs[i].ev.keys = AllKeys
   /\ NUnique(Column(call.logs, "src_ip")) = 1
   /\ NUnique(Column(call.logs, "dst_port")) = 8) =>
    /\ report.attacks # <<>>
    /\ \A i \in 1..Len(report.attacks) : report.attacks[i].type = "port_scan"

(***************************************************************************)
(* Properties of passes run by several threads, checked under              *)
(* ConcurrentSpec.                                                         *)
(***************************************************************************)
\* C14: a pass writes the stored score of a source exactly once, and the value
\* it writes has the frequency penalty and, for a known-malicious source, the
\* further 20 already applied to the score the pass read: no state stores a
\* score with part of the pass's penalty.
C14_ScoreWrittenWhole ==
  [][/\ \A ip \in DOMAIN reputation_scores' :
          (ip \notin DOMAIN reputation_scores
             \/ reputation_scores'[ip] # reputation_scores[ip]) =>
            \E t \in Threads :
              /\ passes[t].pc = "store"
              /\ passes'[t].pc # "store"
              /\ Entry(passes[t])[1] = ip
              /\ ip \notin SeqRange(passes[t].written)
              /\ LET f    == Entry(passes[t])[2]
                     base == Max(0, passes[t].current_score - Min(2 * f, 40))
                 IN reputation_scores'[ip] =
                      IF ip \in known_malicious_ips THEN Max(0, base - 20) ELSE base
     /\ \A t \in Threads :
          /\ Cardinality(SeqRange(passes'[t].written)) = Len(passes'[t].written)
          /\ passes'[t].pc \in {"return", "done"} =>
               passes'[t].written =
                 [i \in 1..Len(Table(passes'[t])) |-> Table(passes'[t])[i][1]]
    ]_vars

\* a pass has stored the score of a known-malicious source, lowered by both
\* penalties, while the other thread was inside its own pass
C14_MaliciousStoredWhole ==
  \E t \in Threads :
    /\ "192.168.1.100" \in SeqRange(passes[t].written)
    /\ passes[t].updates["192.168.1.100"].old_score = 50
    /\ passes[t].updates["192.168.1.100"].change = -30
    /\ reputation_scores["192.168.1.100"] = 20
    /\ \E u \in Threads \ {t} : InProgress(passes[u])

\* what one pass on the batch takes from the score of the source
PassPenalty(logs, ip) ==
  LET f == FreqOf(Pipe(logs).features.ip_frequency, ip)
  IN IF f = 0 THEN 0
     ELSE Min(2 * f, 40) + (IF ip \in known_malicious_ips THEN 20 ELSE 0)

\* the scores after the passes of the two threads, one after the other
SerialScore(ip) ==
  Max(0, 50 - PassPenalty(passes[1].logs, ip) - PassPenalty(passes[2].logs, ip))

BatchSources(logs) ==
  {Pipe(logs).features.ip_frequency[i][1] :
     i \in 1..Len(Pipe(logs).features.ip_frequency)}

\* C15: when the two passes are serialized (neither begins while the other is
\* in analyze_logs), every source ends with the score of the two penalties
\* applied one after the other; passes that interleave can lose a penalty (the
\* state C15_LostUpdate).
C15_SerializedPassesCompose ==
  (\A t \in Threads : passes[t].pc = "done" /\ ~passes[t].overlapped) =>
    /\ DOMAIN reputation_scores = BatchSources(passes[1].logs) \cup BatchSources(passes[2].logs)
    /\ \A ip \in DOMAIN reputation_scores : reputation_scores[ip] = SerialScore(ip)

\* both passes read the same old score of a shared source, and the score left
\* behind is that of one penalty alone: it is the result of no serial order
C15_LostUpdate ==
  /\ \A t \in Threads : passes[t].pc = "done" /\ passes[t].overlapped
  /\ \E ip \in BatchSources(passes[1].logs) \cap BatchSources(passes[2].logs) :
       /\ passes[1].updates[ip].old_score = passes[2].updates[ip].old_score
       /\ reputation_scores[ip] > SerialScore(ip)
       /\ reputation_scores[ip] \in {50 - PassPenalty(passes[1].logs, ip),
                                     50 - PassPenalty(passes[2].logs, ip)}

(***************************************************************************)
(* Properties of the threat analysis and of the port prioritization,       *)
(* checked under StageSpec.                                                *)
(***************************************************************************)
\* _analyze_threats has returned
ThreatsReturned == probe.fn = "_analyze_threats" /\ probe.done /\ ~probe.raised

\* the position at which the source is first met in the list of attacks
FirstMet(attacks, ip) ==
  CHOOSE i \in 1..Len(attacks) :
    /\ attacks[i].source_ip = ip
    /\ \A j \in 1..(i - 1) : attacks[j].source_ip # ip

\* C18: the threats made from a list of attacks are one critical immediate
\* threat per attack of severity high, in the order of those attacks, followed
\* by the persistent threats in the order their sources are first met; no
\* persistent threat precedes an immediate one, and an attack of another
\* severity makes no immediate threat.
C18_ThreatOrder ==
  ThreatsReturned =>
    LET a    == probe.attacks
        th   == probe.result
        high == {i \in 1..Len(a) : a[i].severity = "high"}
        nth(k) == CHOOSE i \in high : Cardinality({j \in high : j <= i}) = k
    IN /\ Len(th) >= Cardinality(high)
       /\ \A k \in 1..Len(th) :
            IF k <= Cardinality(high)
            THEN /\ th[k].type = "immediate_threat"
                 /\ th[k].severity = "critical"
                 /\ th[k].source = a[nth(k)].source_ip
                 /\ th[k].attack_types = <<a[nth(k)].type>>
            ELSE /\ th[k].type = "persistent_threat"
                 /\ th[k].severity = "high"
                 /\ \E i \in 1..Len(a) : a[i].source_ip = th[k].source
                 /\ \A j \in (k + 1)..Len(th) :
                      FirstMet(a, th[k].source) < FirstMet(a, th[j].source)

\* two of four attacks were of severity high: two immediate threats in their
\* order, then the two persistent sources in the order they were first met,
\* which is the other way round
C18_ImmediateThenPersistent ==
  /\ ThreatsReturned
  /\ Len(probe.attacks) = 4 /\ Len(probe.result) = 4
  /\ probe.attacks[1].severity = "medium"
  /\ probe.result[1].type = "immediate_threat" /\ probe.result[1].source = "10.0.0.1"
  /\ probe.result[2].type = "immediate_threat" /\ probe.result[2].source = "10.0.0.2"
  /\ probe.result[3].type = "persistent_threat" /\ probe.result[3].source = "10.0.0.2"
  /\ probe.result[4].type = "persistent_threat" /\ probe.result[4].source = "10.0.0.1"

\* C19: for every list of attacks the threat analyzer is given, a persistent
\* threat (of severity high) is made for a source if and only if the source has
\* more than one distinct attack kind among its attacks, and at most one per
\* source. The list is the one analyze_logs gives it, classified_attacks of
\* line 69, which the report carries under 'attacks' next to the threats made
\* from it; a pass in which the threat analyzer raises returns no threats.
\* Checked under Spec.
C19_PersistentIffDistinctKinds ==
  (call.outcome = "returned" /\ call.logs # <<>> /\ report.keys = FullKeys) =>
    LET a  == report.attacks
        th == report.threats
    IN \A ip \in {a[i].source_ip : i \in 1..Len(a)} :
         LET made  == {k \in 1..Len(th) : th[k].type = "persistent_threat"
                                          /\ th[k].source = ip}
             kinds == {a[i].type : i \in {j \in 1..Len(a) : a[j].source_ip = ip}}
         IN /\ Cardinality(made) <= 1
            /\ (made # {}) <=> (Cardinality(kinds) > 1)
            /\ \A k \in made : th[k].severity = "high"

\* a pass found two attack kinds for one source and one for another: the
\* report has a persistent threat for the first and none for the second
C19_OneOfTwoSources ==
  /\ call.outcome = "returned" /\ report.keys = FullKeys
  /\ \E i, j, m \in 1..Len(report.attacks) :
       /\ report.attacks[i].source_ip = report.attacks[j].source_ip
       /\ report.attacks[i].type = "brute_force"
       /\ report.attacks[j].type = "port_scan"
       /\ report.attacks[m].source_ip # report.attacks[i].source_ip
       /\ \E k \in 1..Len(report.threats) :
            /\ report.threats[k].type = "persistent_threat"
            /\ report.threats[k].source = report.attacks[i].source_ip
       /\ \A k \in 1..Len(report.threats) :
            report.threats[k].type = "persistent_threat"
              => report.threats[k].source # report.attacks[m].source_ip

\* _identify_high_value_ports has returned
PortsReturned == probe.fn = "_identify_high_value_ports" /\ probe.done

\* C20: port prioritization returns the ports of the critical set
\* {22,21,80,443,3389,25,53,135,139,445} with frequency above 5, in the order of
\* the set, then every other port with frequency above 10, in the order of the
\* table, cut to the first 10: at most 10 ports, none twice, every critical
\* port before every other.
C20_PortPriority ==
  PortsReturned =>
    LET t == probe.port_frequency
        r == probe.result
        crit == <<22, 21, 80, 443, 3389, 25, 53, 135, 139, 445>>
        at(q) == CHOOSE i \in 1..Len(t) : t[i][1] = q
        listed(q) == \E c \in 1..10 : crit[c] = q /\ t[at(q)][2] > 5
        found(q)  == ~listed(q) /\ t[at(q)][2] > 10
        \* the place of a port in the order: critical ports by the set
        rank(q) == IF listed(q) THEN CHOOSE c \in 1..10 : crit[c] = q
                   ELSE 10 + at(q)
        wanted == {q \in {t[i][1] : i \in 1..Len(t)} : listed(q) \/ found(q)}
    IN /\ Len(r) <= 10
       /\ Len(r) = IF Cardinality(wanted) > 10 THEN 10 ELSE Cardinality(wanted)
       /\ \A k \in 1..Len(r) : r[k] \in wanted
       /\ \A k \in 1..Len(r) : \A j \in (k + 1)..Len(r) : rank(r[k]) < rank(r[j])
       /\ \A q \in wanted \ {r[k] : k \in 1..Len(r)} :
            \A k \in 1..Len(r) : rank(r[k]) < rank(q)
       /\ \A k \in 1..Len(r) : \A j \in (k + 1)..Len(r) : r[k] # r[j]
       /\ \A k \in 1..Len(r) : \A j \in (k + 1)..Len(r) : listed(r[j]) => listed(r[k])

\* a table in which the discovered ports come first and twelve ports qualify:
\* the ten critical ports are returned and both discovered ports are cut
C20_CutAtTen ==
  /\ PortsReturned
  /\ Len(probe.port_frequency) = 12
  /\ probe.port_frequency[1][1] = 8081
  /\ probe.port_frequency[1][2] = 11
  /\ Len(probe.result) = 10
  /\ probe.result[1] = 22
  /\ probe.result[10] = 445

\* _calculate_threat_level has returned
LevelReturned == probe.fn = "_calculate_threat_level" /\ probe.done

\* C22: threat_level is the bucket (Critical above 60, High above 40, Medium
\* above 20, else Low) of min(2*unique_sources, 20) + min(1.5*unique_ports, 15)
\* + 10*(known-malicious sources in the source-frequency table)
\* + min(peak_frequency/10, 25); so Critical is reported only for a batch whose
\* source-frequency table holds a known-malicious source.
C22_ThreatLevel ==
  LevelReturned =>
    LET logs    == probe.logs
        sources == {logs[i].ev.src_ip : i \in 1..Len(logs)}
        ports   == {logs[i].ev.dst_port : i \in 1..Len(logs)}
        table   == _extract_features(logs, known_malicious_ips).ip_frequency
        hits    == {i \in 1..Len(table) : table[i][1] \in known_malicious_ips}
        peak    == CHOOSE c \in {table[i][2] : i \in 1..Len(table)} :
                     \A i \in 1..Len(table) : table[i][2] <= c
        \* ten times the score
        score   == (IF 20 * Cardinality(sources) < 200
                    THEN 20 * Cardinality(sources) ELSE 200)
                   + (IF 15 * Cardinality(ports) < 150
                      THEN 15 * Cardinality(ports) ELSE 150)
                   + 100 * Cardinality(hits)
                   + (IF peak < 250 THEN peak ELSE 250)
    IN /\ Len(table) <= 10
       /\ probe.level = IF score > 600 THEN "Critical"
                        ELSE IF score > 400 THEN "High"
                        ELSE IF score > 200 THEN "Medium"
                        ELSE "Low"
       /\ probe.level = "Critical" => hits # {}

\* eleven sources, none known-malicious, over eleven ports and with a peak of
\* 260 events: every term at its cap, the score 60, and the level High
C22_SaturatedWithoutMalicious ==
  /\ LevelReturned
  /\ known_malicious_ips # {}
  /\ Len(probe.logs) = 11
  /\ probe.logs[1].n = 260
  /\ \A i \in 1..Len(probe.logs) :
       /\ probe.logs[i].ev.src_ip \notin known_malicious_ips
       /\ \A j \in 1..Len(probe.logs) :
            i # j => /\ probe.logs[i].ev.src_ip # probe.logs[j].ev.src_ip
                     /\ probe.logs[i].ev.dst_port # probe.logs[j].ev.dst_port
  /\ probe.level = "High"

====
